---- MODULE Spec2Model ----
(***************************************************************************)
(* PyGPSClient: the UBX message dispatcher (UBXHandler, ubx_handler.py)    *)
(* and the spectrum view that receives its indicators (SpanviewFrame,      *)
(* spanview_frame.py).                                                     *)
(*                                                                         *)
(* One step of the model is one call of UBXHandler.process_data on one     *)
(* frame, or one change the user makes to a setting between two frames.    *)
(* Python floats produced by true division (raw / 10 ** 7) are kept as     *)
(* exact fractions <<numerator, denominator>> in lowest terms.             *)
(***************************************************************************)
EXTENDS Integers, Sequences, FiniteSets, TLC

VARIABLES
    rs,         \* UBXHandler's held data: lat, lon, alt, ..., gsv_data
    spanview,   \* SpanviewFrame's held data: spoof, jamState, jamming, center, span
    settings,   \* frm_settings: raw, show_zero, record_track; and GLONASS_NMEA
    sinks,      \* the collaborators of the application that are present (not None)
    last,       \* what the last call of process_data did
    prev,       \* the program state before the last call of process_data
    pending,    \* the frames whose read events wait in the toolkit's event queue
    nsteps      \* steps taken so far

vars == <<rs, spanview, settings, sinks, last, prev, pending, nsteps>>

\* Steps explored by the model checker.
MaxSteps == 3

\* Read events that may wait in the event queue at one time.
MaxPending == 2

----------------------------------------------------------------------------
(* Numbers *)

Abs(n) == IF n < 0 THEN -n ELSE n

RECURSIVE GCD(_, _)
GCD(a, b) == IF b = 0 THEN a ELSE GCD(b, a % b)

\* Python's n / d on integers (d > 0): a float, kept as the exact fraction.
TrueDiv(n, d) == LET g == GCD(Abs(n), d) IN <<n \div g, d \div g>>

\* Python's n // d.
FloorDiv(n, d) == n \div d

\* The integer 0 the constructor stores compares equal to the float 0.0.
Zero == TrueDiv(0, 1)

\* self.utc = "" in the constructor: the empty string.
EmptyStr == <<>>

\* x != "" where x is a float: always true in Python.
NotEmptyStr(x) == x # EmptyStr

----------------------------------------------------------------------------
(* pyubx2 helpers used by the handlers *)

\* gpsfix2str: total over the integers, "NO FIX" for every code it does not name.
gpsfix2str(fix) ==
    CASE fix = 5 -> "TIME ONLY"
      [] fix = 4 -> "GPS + DR"
      [] fix = 3 -> "3D"
      [] fix = 2 -> "2D"
      [] fix = 1 -> "DR"
      [] OTHER   -> "NO FIX"

\* itow2utc: time of day of GPS millisecond time of week iTOW, less the
\* GPS-UTC leap second offset; kept as <<milliseconds since midnight>>.
itow2utc(iTOW) == << (iTOW - 16000) % 86400000 >>

IsLeap(y) == (y % 4 = 0 /\ y % 100 # 0) \/ y % 400 = 0

DaysInMonth(y, m) ==
    IF m = 2 THEN (IF IsLeap(y) THEN 29 ELSE 28)
    ELSE IF m \in {4, 6, 9, 11} THEN 30 ELSE 31

\* datetime(year, month, day, hour, min, second) raises ValueError unless:
ValidDatetime(d) ==
    /\ d.year \in 1..9999
    /\ d.month \in 1..12
    /\ d.day >= 1 /\ d.day <= DaysInMonth(d.year, d.month)
    /\ d.hour \in 0..23
    /\ d.min \in 0..59
    /\ d.second \in 0..59

\* datetime(...).isoformat() + "Z"
IsoZ(d) == <<d.year, d.month, d.day, d.hour, d.min, d.second, "Z">>

\* UBX_MSGIDS: the identity table, keyed by the class and id bytes.
UBX_MSGIDS ==
    (<<5, 1>> :> "ACK-ACK") @@ (<<5, 0>> :> "ACK-NAK") @@
    (<<6, 1>> :> "CFG-MSG") @@ (<<6, 0>> :> "CFG-PRT") @@
    (<<6, 8>> :> "CFG-RATE") @@ (<<6, 2>> :> "CFG-INF") @@
    (<<6, 139>> :> "CFG-VALGET") @@
    (<<1, 2>> :> "NAV-POSLLH") @@ (<<1, 7>> :> "NAV-PVT") @@
    (<<1, 18>> :> "NAV-VELNED") @@ (<<1, 53>> :> "NAV-SAT") @@
    (<<1, 48>> :> "NAV-SVINFO") @@ (<<1, 6>> :> "NAV-SOL") @@
    (<<1, 4>> :> "NAV-DOP") @@ (<<40, 0>> :> "HNR-PVT") @@
    (<<10, 4>> :> "MON-VER") @@ (<<10, 9>> :> "MON-HW") @@
    (<<1, 3>> :> "NAV-STATUS") @@ (<<10, 56>> :> "MON-RF") @@
    (<<10, 49>> :> "MON-SPAN") @@ (<<1, 34>> :> "NAV-CLOCK")

\* UBXMessage.identity: the table's name, or the sentinel for a pair it lacks.
Identity(cls, id) ==
    IF <<cls, id>> \in DOMAIN UBX_MSGIDS THEN UBX_MSGIDS[<<cls, id>>] ELSE "UNKNOWN"

\* helpers.svid2gnssid: the GNSS of a combined satellite id, by numeric range.
svid2gnssid(svid) ==
    IF svid >= 120 /\ svid <= 158 THEN 1
    ELSE IF svid >= 211 /\ svid <= 246 THEN 2
    ELSE IF (svid >= 159 /\ svid <= 163) \/ (svid >= 33 /\ svid <= 64) THEN 3
    ELSE IF svid >= 173 /\ svid <= 182 THEN 4
    ELSE IF svid >= 193 /\ svid <= 202 THEN 5
    ELSE IF (svid >= 65 /\ svid <= 96) \/ svid = 255 THEN 6
    ELSE 0

----------------------------------------------------------------------------
(* Frames on the wire *)

\* The UBX checksum (8 bit Fletcher) over class, id, length and payload.
RECURSIVE Fletcher(_, _, _, _)
Fletcher(bytes, i, a, b) ==
    IF i > Len(bytes) THEN <<a, b>>
    ELSE LET a2 == (a + bytes[i]) % 256
         IN  Fletcher(bytes, i + 1, a2, (b + a2) % 256)

Checksum(cls, id, payload) ==
    Fletcher(<<cls, id, Len(payload) % 256, Len(payload) \div 256>> \o payload, 1, 0, 0)

\* A frame as received: header bytes, payload bytes, the two checksum bytes,
\* and the named fields pyubx2 decodes the payload to.
MkFrame(cls, id, payload, fields) ==
    [cls |-> cls, id |-> id, payload |-> payload,
     ck |-> Checksum(cls, id, payload), fields |-> fields]

\* The same frame with its trailing checksum byte corrupted.
Corrupt(f) == [f EXCEPT !.ck = <<f.ck[1], (f.ck[2] + 1) % 256>>]

\* The bytes of a frame: sync characters, class, id, length, payload, checksum.
RawBytes(f) ==
    <<181, 98, f.cls, f.id, Len(f.payload) % 256, Len(f.payload) \div 256>>
        \o f.payload \o f.ck

----------------------------------------------------------------------------
(* The frames handed to process_data in this model *)

ACK_ACK_known == MkFrame(5, 1, <<6, 1>>, [clsID |-> 6, msgID |-> 1])

\* acknowledges a class/id pair that UBX_MSGIDS does not hold
ACK_ACK_unlisted == MkFrame(5, 1, <<6, 153>>, [clsID |-> 6, msgID |-> 153])

ACK_NAK_unlisted == MkFrame(5, 0, <<6, 153>>, [clsID |-> 6, msgID |-> 153])

CFG_MSG_frame ==
    MkFrame(6, 1, <<1, 7, 0, 1, 0, 1, 0, 0>>,
            [msgClass |-> 1, msgID |-> 7, rateDDC |-> 0, rateUART1 |-> 1,
             rateUART2 |-> 0, rateUSB |-> 1, rateSPI |-> 0])

CFG_PRT_frame ==
    MkFrame(6, 0, <<3>>,
            [portID |-> 3, baudRate |-> 9600, inProtoMask |-> 7, outProtoMask |-> 3])

CFG_RATE_frame ==
    MkFrame(6, 8, <<232, 3, 1, 0, 1, 0>>, [measRate |-> 1000, navRate |-> 1, timeRef |-> 1])

CFG_INF_frame == MkFrame(6, 2, <<0>>, [protocolID |-> 0])

CFG_VALGET_frame == MkFrame(6, 139, <<0, 0>>, [version |-> 0, layer |-> 0])

NAV_POSLLH_frame ==
    MkFrame(1, 2, <<2>>,
            [iTOW |-> 403667000, lon |-> -22402964, lat |-> 534507657,
             hMSL |-> 83698, hAcc |-> 16500, vAcc |-> 19700])

\* 3D fix, 8 satellites, raw lat 473397000
NAV_PVT_3d ==
    MkFrame(1, 7, <<3, 8>>,
            [iTOW |-> 403668000, year |-> 2021, month |-> 4, day |-> 21,
             hour |-> 16, min |-> 7, second |-> 50,
             fixType |-> 3, numSV |-> 8, lon |-> 85339000, lat |-> 473397000,
             hMSL |-> 429000, hAcc |-> 2500, vAcc |-> 3500,
             gSpeed |-> 1500, headMot |-> 9000000, pDOP |-> 150])

\* no fix, and date fields the receiver has not yet set (month 0, day 0)
NAV_PVT_nofix ==
    MkFrame(1, 7, <<0, 0>>,
            [iTOW |-> 1000, year |-> 2015, month |-> 0, day |-> 0,
             hour |-> 0, min |-> 0, second |-> 0,
             fixType |-> 0, numSV |-> 0, lon |-> 0, lat |-> 0,
             hMSL |-> -17000, hAcc |-> 4294967, vAcc |-> 3750000,
             gSpeed |-> 0, headMot |-> 0, pDOP |-> 9999])

\* the time is known (a valid date) and there is no position: fixType 5
NAV_PVT_timeonly ==
    MkFrame(1, 7, <<5, 0>>,
            [iTOW |-> 403670000, year |-> 2021, month |-> 4, day |-> 21,
             hour |-> 16, min |-> 7, second |-> 52,
             fixType |-> 5, numSV |-> 0, lon |-> 0, lat |-> 0,
             hMSL |-> -17000, hAcc |-> 4294967, vAcc |-> 3750000,
             gSpeed |-> 0, headMot |-> 0, pDOP |-> 9999])

\* the same raw gSpeed as NAV_PVT_3d
NAV_VELNED_frame == MkFrame(1, 18, <<18>>, [heading |-> 4500000, gSpeed |-> 1500])

NAV_SAT_empty == MkFrame(1, 53, <<0>>, [numCh |-> 0, sats |-> <<>>])

\* a GPS satellite, a GLONASS slot number with no signal, a GLONASS NMEA number
NAV_SAT_three ==
    MkFrame(1, 53, <<3>>,
            [numCh |-> 3,
             sats |-> << [gnssId |-> 0, svId |-> 12, elev |-> 45, azim |-> 100, cno |-> 30],
                         [gnssId |-> 6, svId |-> 5, elev |-> 10, azim |-> 200, cno |-> 0],
                         [gnssId |-> 6, svId |-> 70, elev |-> 20, azim |-> 250, cno |-> 25] >>])

\* GLONASS records with satellite ids 0, 1, 24, 25 and 255, and a Galileo record
NAV_SAT_glonass ==
    MkFrame(1, 53, <<6>>,
            [numCh |-> 6,
             sats |-> << [gnssId |-> 6, svId |-> 0, elev |-> 5, azim |-> 10, cno |-> 18],
                         [gnssId |-> 6, svId |-> 1, elev |-> 15, azim |-> 20, cno |-> 20],
                         [gnssId |-> 6, svId |-> 24, elev |-> 25, azim |-> 30, cno |-> 22],
                         [gnssId |-> 6, svId |-> 25, elev |-> 35, azim |-> 40, cno |-> 24],
                         [gnssId |-> 6, svId |-> 255, elev |-> 0, azim |-> 0, cno |-> 10],
                         [gnssId |-> 2, svId |-> 5, elev |-> 55, azim |-> 60, cno |-> 30] >>])

\* numCh counts a record more than the message holds
NAV_SAT_short ==
    MkFrame(1, 53, <<2>>,
            [numCh |-> 2,
             sats |-> << [gnssId |-> 2, svId |-> 7, elev |-> 60, azim |-> 30, cno |-> 40] >>])

NAV_SVINFO_two ==
    MkFrame(1, 48, <<2>>,
            [numCh |-> 2,
             sats |-> << [svid |-> 70, elev |-> 15, azim |-> 300, cno |-> 0],
                         [svid |-> 12, elev |-> 45, azim |-> 100, cno |-> 33] >>])

NAV_SVINFO_empty == MkFrame(1, 48, <<0>>, [numCh |-> 0, sats |-> <<>>])

NAV_SOL_frame == MkFrame(1, 6, <<6>>, [pDOP |-> 250, numSV |-> 5, gpsFix |-> 2])

NAV_DOP_frame == MkFrame(1, 4, <<4>>, [pDOP |-> 199, hDOP |-> 120, vDOP |-> 160])

HNR_PVT_frame ==
    MkFrame(40, 0, <<40>>,
            [iTOW |-> 403669000, year |-> 2021, month |-> 4, day |-> 21,
             hour |-> 16, min |-> 7, second |-> 51,
             gpsFix |-> 3, lon |-> 85340000, lat |-> 473398000,
             hMSL |-> 429500, hAcc |-> 2400, vAcc |-> 3400,
             gSpeed |-> 2500, headMot |-> 9100000])

\* a 2D fix
HNR_PVT_2d ==
    MkFrame(40, 0, <<40, 2>>,
            [iTOW |-> 403671000, year |-> 2021, month |-> 4, day |-> 21,
             hour |-> 16, min |-> 7, second |-> 53,
             gpsFix |-> 2, lon |-> 85341000, lat |-> 473399000,
             hMSL |-> 0, hAcc |-> 9000, vAcc |-> 50000,
             gSpeed |-> 500, headMot |-> 1200000])

\* byte strings are kept as sequences of tokens; "NUL" is the byte 0 and
\* "0xFF" a byte that is not valid UTF-8
MON_VER_full ==
    MkFrame(10, 4, <<1>>,
            [swVersion |-> <<"ROM CORE", "3.01", "NUL">>,
             hwVersion |-> <<"00080000", "NUL">>,
             extensions |-> << <<"FWVER=", "SPG 3.01">>, <<"PROTVER=", "18.00">>,
                               <<"GPS", ";", "GLO">> >>])

\* ten extensions, the tenth naming a GNSS the first nine do not
MON_VER_long ==
    MkFrame(10, 4, <<4>>,
            [swVersion |-> <<"EXT CORE", "1.00">>, hwVersion |-> <<"00190000">>,
             extensions |-> << <<"ROM BASE">>, <<"FWVER=", "HPG 1.13">>,
                               <<"PROTVER=", "27.12">>, <<"MOD=", "ZED-F9P">>,
                               <<"GPS", ";", "GLO">>, <<"SBAS">>, <<"QZSS">>,
                               <<"x7">>, <<"x8">>, <<"GAL">> >>])

\* a message that carries no swVersion field
MON_VER_nosw ==
    MkFrame(10, 4, <<2>>, [hwVersion |-> <<"00080000">>, extensions |-> <<>>])

\* an extension that is not valid UTF-8
MON_VER_badutf ==
    MkFrame(10, 4, <<3>>,
            [swVersion |-> <<"EXT CORE", "1.00">>, hwVersion |-> <<"00190000">>,
             extensions |-> << <<"0xFF">> >>])

MON_HW_full == MkFrame(10, 9, <<1>>, [aStatus |-> 2, aPower |-> 1, jamInd |-> 12])

MON_HW_bare == MkFrame(10, 9, <<2>>, [noisePerMS |-> 80])

\* flags2 bytes: spoofing indicated; the largest 5-bit value; with carrSoln set
NAV_STATUS_16 == MkFrame(1, 3, <<16>>, [flags2 |-> <<16>>])

NAV_STATUS_31 == MkFrame(1, 3, <<31>>, [flags2 |-> <<31>>])

NAV_STATUS_72 == MkFrame(1, 3, <<72>>, [flags2 |-> <<72>>])

MON_RF_frame == MkFrame(10, 56, <<2, 40>>, [flags_01 |-> <<2>>, jamInd_01 |-> 40])

\* jammingState 2 in bits 1..0 of the flags byte, and bit 2 set above it
MON_RF_reserved == MkFrame(10, 56, <<6, 40>>, [flags_01 |-> <<6>>, jamInd_01 |-> 40])

\* the number of spectrum bins of one RF block of MON-SPAN
NBins == 256

MON_SPAN_frame ==
    MkFrame(10, 49, <<49>>,
            [spectrum_01 |-> [i \in 1..NBins |-> (i * 7) % 256],
             center_01 |-> 1575420000, span_01 |-> 128000000])

\* decoded by pyubx2, handled by no branch of process_data
NAV_CLOCK_frame == MkFrame(1, 34, <<34>>, [iTOW |-> 403667000, clkB |-> 5, clkD |-> 1])

\* a class/id pair UBX_MSGIDS does not hold
Vendor_frame == MkFrame(245, 1, <<9>>, [payload |-> <<9>>])

\* the frames a receiver sends, as pyubx2 decodes them
ValidFrames ==
    << ACK_ACK_known, ACK_ACK_unlisted, ACK_NAK_unlisted,
       CFG_MSG_frame, CFG_PRT_frame, CFG_RATE_frame, CFG_INF_frame, CFG_VALGET_frame,
       NAV_POSLLH_frame, NAV_PVT_3d, NAV_PVT_nofix, NAV_PVT_timeonly, NAV_VELNED_frame,
       NAV_SAT_empty, NAV_SAT_three, NAV_SAT_glonass, NAV_SVINFO_two, NAV_SVINFO_empty,
       NAV_SOL_frame, NAV_DOP_frame, HNR_PVT_frame,
       MON_VER_full, MON_VER_long, MON_VER_badutf, MON_HW_full,
       NAV_STATUS_16, NAV_STATUS_31, NAV_STATUS_72, MON_RF_frame, MON_SPAN_frame,
       NAV_CLOCK_frame, Vendor_frame, MON_RF_reserved, HNR_PVT_2d >>

\* every frame above, intact, and with its checksum corrupted
Frames == ValidFrames \o [i \in 1..Len(ValidFrames) |-> Corrupt(ValidFrames[i])]

\* decoded messages that lack a field their handler reads
IncompleteFrames == << NAV_SAT_short, MON_VER_nosw, MON_HW_bare >>

\* every input of the model; last.input is an index into it
Inputs == Frames \o IncompleteFrames

----------------------------------------------------------------------------
(* Running a handler: the program state, the sink calls made so far, and   *)
(* the exception in flight, if any.                                        *)

NoExc == "None"

AllSinks ==
    {"frm_console", "frm_banner", "frm_mapview", "frm_satview", "frm_graphview",
     "frm_spanview", "dlg_ubxconfig", "file_handler"}

\* The handlers of process_data, in the order of its chain of if statements.
HandlerOrder ==
    << "ACK-ACK", "ACK-NAK", "CFG-MSG", "CFG-PRT", "CFG-RATE", "CFG-INF",
       "CFG-VALGET", "NAV-POSLLH", "NAV-PVT", "NAV-VELNED", "NAV-SAT",
       "NAV-SVINFO", "NAV-SOL", "NAV-DOP", "HNR-PVT", "MON-VER", "MON-HW",
       "NAV-STATUS", "MON-RF", "MON-SPAN" >>

Handled == {HandlerOrder[i] : i \in 1..Len(HandlerOrder)}

\* F applied to the value of e: e is evaluated once, before F
Bind(e, F(_)) == CHOOSE y \in {F(x) : x \in {e}} : TRUE

Start(w) ==
    [w |-> w, calls |-> <<>>, handlers |-> <<>>, exc |-> NoExc, caught |-> FALSE,
     nested |-> <<>>]

Raise(r, e) == IF r.exc # NoExc THEN r ELSE [r EXCEPT !.exc = e]

\* self.<field> = value, for each field of upd
Assign(r, upd) ==
    IF r.exc # NoExc THEN r
    ELSE [r EXCEPT !.w.rs = [f \in DOMAIN @ |-> IF f \in DOMAIN upd THEN upd[f] ELSE @[f]]]

\* self.__app.<sink>.<method>(args): AttributeError when the sink is None
Call(r, sink, method, args) ==
    IF r.exc # NoExc THEN r
    ELSE IF sink \notin r.w.sinks THEN Raise(r, "AttributeError")
    ELSE [r EXCEPT !.calls = Append(@, [sink |-> sink, method |-> method, args |-> args])]

\* except ValueError: pass   (UnicodeDecodeError is a ValueError)
Catch(r) ==
    IF r.exc \in {"ValueError", "UnicodeDecodeError"}
    THEN [r EXCEPT !.exc = NoExc, !.caught = TRUE]
    ELSE r

----------------------------------------------------------------------------
(* SpanviewFrame *)

\* The label _draw_jamming finds for the stored spoof value: its four if
\* statements have no else, so any other value leaves spooftext unbound.
SpoofText(spoof) ==
    CASE spoof = 0 -> "deactivated"
      [] spoof = 1 -> "no spoofing"
      [] spoof = 2 -> "spoofing"
      [] spoof = 3 -> "multiple spoof"
      [] OTHER -> "unbound"

JamStateText(jamState) ==
    CASE jamState = 1 -> "no jamming"
      [] jamState = 2 -> "interference"
      [] jamState = 3 -> "jammed"
      [] OTHER -> "deactivated"

\* _draw_jamming: UnboundLocalError at create_text(text=spooftext) when no
\* label was assigned; otherwise the three indicators and the frequency text.
draw_jamming(r) ==
    IF r.exc # NoExc THEN r
    ELSE LET sv == r.w.sv IN
         IF SpoofText(sv.spoof) = "unbound"
         THEN Raise([r EXCEPT !.w.sv.drawn = <<"cleared">>], "UnboundLocalError")
         ELSE [r EXCEPT !.w.sv.drawn =
                   <<SpoofText(sv.spoof), JamStateText(sv.jamState), sv.jamming,
                     sv.center, sv.span>>]

\* update_spoof that redraws the indicators at once
update_spoof_redraw(r, spoof) ==
    LET c == Call(r, "frm_spanview", "update_spoof", [spoof |-> spoof])
    IN  IF c.exc # NoExc THEN c ELSE draw_jamming([c EXCEPT !.w.sv.spoof = spoof])

update_spoof(r, spoof) ==
    LET c == Call(r, "frm_spanview", "update_spoof", [spoof |-> spoof])
    IN  IF c.exc # NoExc THEN c ELSE [c EXCEPT !.w.sv.spoof = spoof]

update_jamming(r, jamState, jamming) ==
    LET c == Call(r, "frm_spanview", "update_jamming",
                  [jamState |-> jamState, jamming |-> jamming])
    IN  IF c.exc # NoExc THEN c
        ELSE [c EXCEPT !.w.sv.jamState = jamState, !.w.sv.jamming = jamming]

RECURSIVE process_data(_, _)

\* can_spanview.update(): the toolkit runs the handlers of the events that
\* wait in its queue before it returns; the handler of a read event calls
\* process_data, and an exception of a handler is reported by the toolkit,
\* not raised here.  nested records each such call and how many sink calls
\* the frame in progress had made when it began.
RECURSIVE CanvasUpdate(_)
CanvasUpdate(r) ==
    IF r.exc # NoExc \/ r.w.pending = <<>> THEN r
    ELSE Bind(process_data([r.w EXCEPT !.pending = Tail(@)], Inputs[Head(r.w.pending)]),
              LAMBDA n :
                CanvasUpdate([r EXCEPT
                    !.w = n.w,
                    !.nested = Append(@, [input |-> Head(r.w.pending),
                                          at |-> Len(r.calls), exc |-> n.exc,
                                          handlers |-> n.handlers, calls |-> n.calls,
                                          nested |-> n.nested])]))

\* update_span: store centre and span, clear and redraw, plot the 256 bins,
\* then update the canvas
update_span(r, spectra, center, span) ==
    LET c == Call(r, "frm_spanview", "update_span",
                  [spectra |-> spectra, center |-> center, span |-> span])
        s == IF c.exc # NoExc THEN c
             ELSE [c EXCEPT !.w.sv.center = center, !.w.sv.span = span]
        d == draw_jamming(s)
    IN  IF d.exc # NoExc THEN d
        ELSE IF Len(spectra) < NBins THEN Raise(d, "IndexError")
        ELSE CanvasUpdate([d EXCEPT !.w.sv.drawn = Append(@, spectra)])

----------------------------------------------------------------------------
(* The handlers of UBXHandler.  Each takes the running state r and the     *)
(* decoded fields of the message.                                          *)

\* UBX_MSGIDS[ubxClass + ubxID]: KeyError for a pair the table lacks
MsgType(r, cls, id) ==
    IF <<cls, id>> \in DOMAIN UBX_MSGIDS THEN r ELSE Raise(r, "KeyError")

process_ACK_ACK(r, data) ==
    IF "dlg_ubxconfig" \in r.w.sinks
    THEN LET k == MsgType(r, data.clsID, data.msgID)
         IN  Call(k, "dlg_ubxconfig", "update_pending",
                  [msgid |-> "ACK-ACK", msgtype |-> Identity(data.clsID, data.msgID)])
    ELSE r

process_ACK_NAK(r, data) ==
    IF "dlg_ubxconfig" \in r.w.sinks
    THEN LET k == MsgType(r, data.clsID, data.msgID)
         IN  Call(k, "dlg_ubxconfig", "update_pending",
                  [msgid |-> "ACK-NAK", msgtype |-> Identity(data.clsID, data.msgID)])
    ELSE r

process_CFG_MSG(r, data) ==
    IF "dlg_ubxconfig" \in r.w.sinks
    THEN LET k == MsgType(r, data.msgClass, data.msgID)
         IN  Call(k, "dlg_ubxconfig", "update_pending",
                  [msgid |-> "CFG-MSG", msgtype |-> Identity(data.msgClass, data.msgID),
                   ddcrate |-> data.rateDDC, uart1rate |-> data.rateUART1,
                   uart2rate |-> data.rateUART2, usbrate |-> data.rateUSB,
                   spirate |-> data.rateSPI])
    ELSE r

process_CFG_INF(r, data) ==
    IF "dlg_ubxconfig" \in r.w.sinks
    THEN Call(r, "dlg_ubxconfig", "update_pending", [msgid |-> "CFG-INF"])
    ELSE r

process_CFG_PRT(r, data) ==
    IF "dlg_ubxconfig" \in r.w.sinks
    THEN Call(r, "dlg_ubxconfig", "update_pending",
              [msgid |-> "CFG-PRT", portid |-> data.portID, bpsrate |-> data.baudRate,
               inprot |-> data.inProtoMask, outprot |-> data.outProtoMask])
    ELSE r

process_CFG_RATE(r, data) ==
    IF "dlg_ubxconfig" \in r.w.sinks
    THEN Call(r, "dlg_ubxconfig", "update_pending",
              [msgid |-> "CFG-RATE", measrate |-> data.measRate,
               navrate |-> data.navRate, timeref |-> data.timeRef])
    ELSE r

process_CFG_VALGET(r, data) ==
    IF "dlg_ubxconfig" \in r.w.sinks
    THEN Call(r, "dlg_ubxconfig", "update_pending", [msgid |-> "CFG-VALGET", data |-> data])
    ELSE r

\* NAV-POSLLH with the latitude divided by 10^6
process_NAV_POSLLH_scale6(r, data) ==
    Bind(Assign(r, [utc  |-> itow2utc(data.iTOW),
                    lat  |-> TrueDiv(data.lat, 1000000),
                    lon  |-> TrueDiv(data.lon, 10000000),
                    alt  |-> TrueDiv(data.hMSL, 1000),
                    hacc |-> TrueDiv(data.hAcc, 1000),
                    vacc |-> TrueDiv(data.vAcc, 1000)]),
         LAMBDA a :
    LET h == a.w.rs
        b == Call(a, "frm_banner", "update_banner",
                  [time |-> h.utc, lat |-> h.lat, lon |-> h.lon, alt |-> h.alt,
                   hacc |-> h.hacc, vacc |-> h.vacc])
        m == Call(b, "frm_mapview", "update_map",
                  [lat |-> h.lat, lon |-> h.lon, hacc |-> h.hacc])
    IN  Catch(m))

process_NAV_POSLLH(r, data) ==
    Bind(Assign(r, [utc  |-> itow2utc(data.iTOW),
                    lat  |-> TrueDiv(data.lat, 10000000),
                    lon  |-> TrueDiv(data.lon, 10000000),
                    alt  |-> TrueDiv(data.hMSL, 1000),
                    hacc |-> TrueDiv(data.hAcc, 1000),
                    vacc |-> TrueDiv(data.vAcc, 1000)]),
         LAMBDA a :
    LET h == a.w.rs
        b == Call(a, "frm_banner", "update_banner",
                  [time |-> h.utc, lat |-> h.lat, lon |-> h.lon, alt |-> h.alt,
                   hacc |-> h.hacc, vacc |-> h.vacc])
        m == Call(b, "frm_mapview", "update_map",
                  [lat |-> h.lat, lon |-> h.lon, hacc |-> h.hacc])
    IN  Catch(m))

\* the fix label with no fallback for the fixes that are neither 3D nor 2D
TrackFix_nofallback(fix) == IF fix = "3D" THEN "3d" ELSE IF fix = "2D" THEN "2d" ELSE fix

\* the track point fix label of NAV-PVT and HNR-PVT
TrackFix(fix) == IF fix = "3D" THEN "3d" ELSE IF fix = "2D" THEN "2d" ELSE "none"

\* NAV-PVT that builds the time of the track point before it stores or
\* publishes anything
process_NAV_PVT_timefirst(r, data) ==
    IF r.w.cfg.record_track /\ ~ValidDatetime(data) THEN Catch(Raise(r, "ValueError"))
    ELSE
    Bind(Assign(r, [utc   |-> itow2utc(data.iTOW),
                    lat   |-> TrueDiv(data.lat, 10000000),
                    lon   |-> TrueDiv(data.lon, 10000000),
                    alt   |-> TrueDiv(data.hMSL, 1000),
                    hacc  |-> TrueDiv(data.hAcc, 1000),
                    vacc  |-> TrueDiv(data.vAcc, 1000),
                    pdop  |-> TrueDiv(data.pDOP, 100),
                    sip   |-> data.numSV,
                    speed |-> TrueDiv(data.gSpeed, 1000),
                    track |-> TrueDiv(data.headMot, 100000)]),
         LAMBDA a :
    LET h == a.w.rs
        fix == gpsfix2str(data.fixType)
        b == Call(a, "frm_banner", "update_banner",
                  [time |-> h.utc, lat |-> h.lat, lon |-> h.lon, alt |-> h.alt,
                   hacc |-> h.hacc, vacc |-> h.vacc, dop |-> h.pdop, sip |-> h.sip,
                   speed |-> h.speed, fix |-> fix, track |-> h.track])
        m == Call(b, "frm_mapview", "update_map",
                  [lat |-> h.lat, lon |-> h.lon, hacc |-> h.hacc, fix |-> fix])
        t == IF m.exc # NoExc THEN m
             ELSE IF m.w.cfg.record_track /\ NotEmptyStr(h.lat) /\ NotEmptyStr(h.lon)
             THEN Call(m, "file_handler", "add_trackpoint",
                       [lat |-> h.lat, lon |-> h.lon, ele |-> h.alt,
                        time |-> IsoZ(data), fix |-> TrackFix(fix),
                        sat |-> h.sip, pdop |-> h.pdop])
             ELSE m
    IN  Catch(t))

process_NAV_PVT(r, data) ==
    Bind(Assign(r, [utc   |-> itow2utc(data.iTOW),
                    lat   |-> TrueDiv(data.lat, 10000000),
                    lon   |-> TrueDiv(data.lon, 10000000),
                    alt   |-> TrueDiv(data.hMSL, 1000),
                    hacc  |-> TrueDiv(data.hAcc, 1000),
                    vacc  |-> TrueDiv(data.vAcc, 1000),
                    pdop  |-> TrueDiv(data.pDOP, 100),
                    sip   |-> data.numSV,
                    speed |-> TrueDiv(data.gSpeed, 1000),
                    track |-> TrueDiv(data.headMot, 100000)]),
         LAMBDA a :
    LET h == a.w.rs
        fix == gpsfix2str(data.fixType)
        b == Call(a, "frm_banner", "update_banner",
                  [time |-> h.utc, lat |-> h.lat, lon |-> h.lon, alt |-> h.alt,
                   hacc |-> h.hacc, vacc |-> h.vacc, dop |-> h.pdop, sip |-> h.sip,
                   speed |-> h.speed, fix |-> fix, track |-> h.track])
        m == Call(b, "frm_mapview", "update_map",
                  [lat |-> h.lat, lon |-> h.lon, hacc |-> h.hacc, fix |-> fix])
        t == IF m.exc # NoExc THEN m
             ELSE IF m.w.cfg.record_track /\ NotEmptyStr(h.lat) /\ NotEmptyStr(h.lon)
             THEN IF ~ValidDatetime(data) THEN Raise(m, "ValueError")
                  ELSE Call(m, "file_handler", "add_trackpoint",
                            [lat |-> h.lat, lon |-> h.lon, ele |-> h.alt,
                             time |-> IsoZ(data), fix |-> TrackFix(fix),
                             sat |-> h.sip, pdop |-> h.pdop])
             ELSE m
    IN  Catch(t))

process_NAV_STATUS(r, data) ==
    LET spoof == FloorDiv(data.flags2[1], 8)
    IN  update_spoof(r, spoof)

\* NAV-VELNED with the speed scale of NAV-PVT
process_NAV_VELNED_mm(r, data) ==
    Bind(Assign(r, [track |-> TrueDiv(data.heading, 100000),
                    speed |-> TrueDiv(data.gSpeed, 1000)]),
         LAMBDA a :
    LET b == Call(a, "frm_banner", "update_banner",
                  [speed |-> a.w.rs.speed, track |-> a.w.rs.track])
    IN  Catch(b))

process_NAV_VELNED(r, data) ==
    Bind(Assign(r, [track |-> TrueDiv(data.heading, 100000),
                    speed |-> TrueDiv(data.gSpeed, 100)]),
         LAMBDA a :
    LET b == Call(a, "frm_banner", "update_banner",
                  [speed |-> a.w.rs.speed, track |-> a.w.rs.track])
    IN  Catch(b))

\* the GLONASS slot number (1-24) renumbered as NMEA (65-88)
SatSvid(gnssId, svid, glonass_nmea) ==
    IF gnssId = 6 /\ svid < 25 /\ svid # 255 /\ glonass_nmea THEN svid + 64 ELSE svid

\* the loop of _process_NAV_SAT from record i on; getattr raises
\* AttributeError for a record the message does not hold
RECURSIVE NavSatLoop(_, _, _)
NavSatLoop(r, data, i) ==
    IF r.exc # NoExc \/ i > data.numCh THEN r
    ELSE IF i > Len(data.sats) THEN Raise(r, "AttributeError")
    ELSE LET s == data.sats[i]
             svid == SatSvid(s.gnssId, s.svId, r.w.cfg.glonass_nmea)
         IN  IF s.cno = 0 /\ ~r.w.cfg.show_zero
             THEN NavSatLoop(r, data, i + 1)
             ELSE Bind([r EXCEPT !.w.rs.gsv_data =
                           Append(@, <<s.gnssId, svid, s.elev, s.azim, s.cno>>)],
                       LAMBDA q : NavSatLoop(q, data, i + 1))

\* publishing that leaves the satellite view alone when there is no satellite
PublishSats_skipempty(r) ==
    LET g == r.w.rs.gsv_data
        b == Call(r, "frm_banner", "update_banner", [siv |-> Len(g)])
        v == IF g = <<>> THEN b ELSE Call(b, "frm_satview", "update_sats", [data |-> g])
    IN  Call(v, "frm_graphview", "update_graph", [data |-> g, siv |-> Len(g)])

\* what both satellite handlers publish once their loop is done
PublishSats(r) ==
    LET g == r.w.rs.gsv_data
        b == Call(r, "frm_banner", "update_banner", [siv |-> Len(g)])
        v == Call(b, "frm_satview", "update_sats", [data |-> g])
    IN  Call(v, "frm_graphview", "update_graph", [data |-> g, siv |-> Len(g)])

\* NAV-SAT that appends to the list it holds
process_NAV_SAT_append(r, data) ==
    Bind(NavSatLoop(r, data, 1),
         LAMBDA l : Catch(PublishSats(l)))

process_NAV_SAT(r, data) ==
    Bind(NavSatLoop(Assign(r, [gsv_data |-> <<>>]), data, 1),
         LAMBDA l : Catch(PublishSats(l)))

RECURSIVE NavSvinfoLoop(_, _, _)
NavSvinfoLoop(r, data, i) ==
    IF r.exc # NoExc \/ i > data.numCh THEN r
    ELSE IF i > Len(data.sats) THEN Raise(r, "AttributeError")
    ELSE LET s == data.sats[i]
             gnssId == svid2gnssid(s.svid)
         IN  IF s.cno = 0 /\ ~r.w.cfg.show_zero
             THEN NavSvinfoLoop(r, data, i + 1)
             ELSE Bind([r EXCEPT !.w.rs.gsv_data =
                           Append(@, <<gnssId, s.svid, s.elev, s.azim, s.cno>>)],
                       LAMBDA q : NavSvinfoLoop(q, data, i + 1))

\* NAV-SVINFO that keeps the records with no signal whatever show_zero says
process_NAV_SVINFO_nofilter(r, data) ==
    Bind(NavSvinfoLoop(Assign([r EXCEPT !.w.cfg.show_zero = TRUE], [gsv_data |-> <<>>]),
                       data, 1),
         LAMBDA l : Catch(PublishSats([l EXCEPT !.w.cfg.show_zero = r.w.cfg.show_zero])))

process_NAV_SVINFO(r, data) ==
    Bind(NavSvinfoLoop(Assign(r, [gsv_data |-> <<>>]), data, 1),
         LAMBDA l : Catch(PublishSats(l)))

\* NAV-SOL that also stores its pDOP as hdop
process_NAV_SOL_hdop(r, data) ==
    Bind(Assign(r, [pdop |-> TrueDiv(data.pDOP, 100), sip |-> data.numSV,
                    hdop |-> TrueDiv(data.pDOP, 100)]),
         LAMBDA a :
    LET fix == gpsfix2str(data.gpsFix)
        b == Call(a, "frm_banner", "update_banner",
                  [dop |-> a.w.rs.pdop, fix |-> fix, sip |-> a.w.rs.sip])
    IN  Catch(b))

process_NAV_SOL(r, data) ==
    Bind(Assign(r, [pdop |-> TrueDiv(data.pDOP, 100), sip |-> data.numSV]),
         LAMBDA a :
    LET fix == gpsfix2str(data.gpsFix)
        b == Call(a, "frm_banner", "update_banner",
                  [dop |-> a.w.rs.pdop, fix |-> fix, sip |-> a.w.rs.sip])
    IN  Catch(b))

\* NAV-DOP that republishes the held satellite count with the DOP values
process_NAV_DOP_sip(r, data) ==
    Bind(Assign(r, [pdop |-> TrueDiv(data.pDOP, 100),
                    hdop |-> TrueDiv(data.hDOP, 100),
                    vdop |-> TrueDiv(data.vDOP, 100)]),
         LAMBDA a :
    LET b == Call(a, "frm_banner", "update_banner",
                  [dop |-> a.w.rs.pdop, hdop |-> a.w.rs.hdop, vdop |-> a.w.rs.vdop,
                   sip |-> a.w.rs.sip])
    IN  Catch(b))

process_NAV_DOP(r, data) ==
    Bind(Assign(r, [pdop |-> TrueDiv(data.pDOP, 100),
                    hdop |-> TrueDiv(data.hDOP, 100),
                    vdop |-> TrueDiv(data.vDOP, 100)]),
         LAMBDA a :
    LET b == Call(a, "frm_banner", "update_banner",
                  [dop |-> a.w.rs.pdop, hdop |-> a.w.rs.hdop, vdop |-> a.w.rs.vdop])
    IN  Catch(b))

\* HNR-PVT that updates the map before the banner
process_HNR_PVT_mapfirst(r, data) ==
    Bind(Assign(r, [utc   |-> itow2utc(data.iTOW),
                    lat   |-> TrueDiv(data.lat, 10000000),
                    lon   |-> TrueDiv(data.lon, 10000000),
                    alt   |-> TrueDiv(data.hMSL, 1000),
                    hacc  |-> TrueDiv(data.hAcc, 1000),
                    vacc  |-> TrueDiv(data.vAcc, 1000),
                    speed |-> TrueDiv(data.gSpeed, 1000),
                    track |-> TrueDiv(data.headMot, 100000)]),
         LAMBDA a :
    LET h == a.w.rs
        fix == gpsfix2str(data.gpsFix)
        m == Call(a, "frm_mapview", "update_map",
                  [lat |-> h.lat, lon |-> h.lon, hacc |-> h.hacc, fix |-> fix])
        b == Call(m, "frm_banner", "update_banner",
                  [time |-> h.utc, lat |-> h.lat, lon |-> h.lon, alt |-> h.alt,
                   hacc |-> h.hacc, vacc |-> h.vacc, speed |-> h.speed,
                   fix |-> fix, track |-> h.track])
        t == IF b.exc # NoExc THEN b
             ELSE IF b.w.cfg.record_track /\ NotEmptyStr(h.lat) /\ NotEmptyStr(h.lon)
             THEN IF ~ValidDatetime(data) THEN Raise(b, "ValueError")
                  ELSE Call(b, "file_handler", "add_trackpoint",
                            [lat |-> h.lat, lon |-> h.lon, ele |-> h.alt,
                             time |-> IsoZ(data), fix |-> TrackFix(fix)])
             ELSE b
    IN  Catch(t))

process_HNR_PVT(r, data) ==
    Bind(Assign(r, [utc   |-> itow2utc(data.iTOW),
                    lat   |-> TrueDiv(data.lat, 10000000),
                    lon   |-> TrueDiv(data.lon, 10000000),
                    alt   |-> TrueDiv(data.hMSL, 1000),
                    hacc  |-> TrueDiv(data.hAcc, 1000),
                    vacc  |-> TrueDiv(data.vAcc, 1000),
                    speed |-> TrueDiv(data.gSpeed, 1000),
                    track |-> TrueDiv(data.headMot, 100000)]),
         LAMBDA a :
    LET h == a.w.rs
        fix == gpsfix2str(data.gpsFix)
        b == Call(a, "frm_banner", "update_banner",
                  [time |-> h.utc, lat |-> h.lat, lon |-> h.lon, alt |-> h.alt,
                   hacc |-> h.hacc, vacc |-> h.vacc, speed |-> h.speed,
                   fix |-> fix, track |-> h.track])
        m == Call(b, "frm_mapview", "update_map",
                  [lat |-> h.lat, lon |-> h.lon, hacc |-> h.hacc, fix |-> fix])
        t == IF m.exc # NoExc THEN m
             ELSE IF m.w.cfg.record_track /\ NotEmptyStr(h.lat) /\ NotEmptyStr(h.lon)
             THEN IF ~ValidDatetime(data) THEN Raise(m, "ValueError")
                  ELSE Call(m, "file_handler", "add_trackpoint",
                            [lat |-> h.lat, lon |-> h.lon, ele |-> h.alt,
                             time |-> IsoZ(data), fix |-> TrackFix(fix)])
             ELSE m
    IN  Catch(t))

process_MON_RF(r, data) == update_jamming(r, data.flags_01[1], data.jamInd_01)

\* MON-SPAN that hands the bins over from the last to the first
process_MON_SPAN_reversed(r, data) ==
    LET spectra == [i \in 1..NBins |-> data.spectrum_01[NBins + 1 - i]]
    IN  update_span(r, spectra, data.center_01, data.span_01)

\* spectra.append(data.spectrum_01_01) ... spectra.append(data.spectrum_01_256)
process_MON_SPAN(r, data) ==
    LET spectra == [i \in 1..NBins |-> data.spectrum_01[i]]
    IN  update_span(r, spectra, data.center_01, data.span_01)

----------------------------------------------------------------------------
(* MON-VER and MON-HW.  A byte string is a sequence of tokens.             *)

Has(tokens, t) == \E i \in 1..Len(tokens) : tokens[i] = t

\* x.replace(t, "")
Without(tokens, t) == SelectSeq(tokens, LAMBDA x : x # t)

\* x.replace(old, new)
Replace(tokens, old, new) ==
    [i \in 1..Len(tokens) |-> IF tokens[i] = old THEN new ELSE tokens[i]]

\* bytes.decode("utf-8") raises UnicodeDecodeError on an invalid byte
Decodable(tokens) == ~Has(tokens, "0xFF")

GnssNames == <<"GPS", "GLO", "GAL", "BDS", "SBAS", "IMES", "QZSS">>

\* the names of GnssNames found in one extension, in the order of GnssNames
GnssIn(ext) ==
    SelectSeq(GnssNames, LAMBDA g : Has(ext, g))

\* the number of extension fields _process_MON_VER reads
NExtensions == 9

\* the loop run over every extension the message holds, however many
RECURSIVE MonVerLoop_all(_, _, _)
MonVerLoop_all(data, i, acc) ==
    IF (i > NExtensions /\ i > Len(data.extensions)) \/ acc.failed THEN acc
    ELSE LET raw == IF i <= Len(data.extensions) THEN data.extensions[i] ELSE <<>>
             ext == Without(raw, "NUL")
         IN  IF ~Decodable(ext) THEN [acc EXCEPT !.failed = TRUE]
             ELSE LET fw == IF Has(ext, "FWVER=") THEN Without(ext, "FWVER=") ELSE acc.fw
                      p1 == IF Has(ext, "PROTVER=") THEN Without(ext, "PROTVER=")
                            ELSE acc.protocol
                      p2 == IF Has(ext, "PROTVER ") THEN Without(ext, "PROTVER ") ELSE p1
                  IN  Bind([acc EXCEPT !.fw = fw, !.protocol = p2,
                                        !.gnss = @ \o GnssIn(ext)],
                           LAMBDA next : MonVerLoop_all(data, i + 1, next))

\* the loop over the extensions from index i on; acc holds fw_version,
\* protocol, gnss_supported and whether a decode has failed
RECURSIVE MonVerLoop(_, _, _)
MonVerLoop(data, i, acc) ==
    IF i > NExtensions \/ acc.failed THEN acc
    ELSE LET raw == IF i <= Len(data.extensions) THEN data.extensions[i] ELSE <<>>
             ext == Without(raw, "NUL")
         IN  IF ~Decodable(ext) THEN [acc EXCEPT !.failed = TRUE]
             ELSE LET fw == IF Has(ext, "FWVER=") THEN Without(ext, "FWVER=") ELSE acc.fw
                      p1 == IF Has(ext, "PROTVER=") THEN Without(ext, "PROTVER=")
                            ELSE acc.protocol
                      p2 == IF Has(ext, "PROTVER ") THEN Without(ext, "PROTVER ") ELSE p1
                  IN  Bind([acc EXCEPT !.fw = fw, !.protocol = p2,
                                        !.gnss = @ \o GnssIn(ext)],
                           LAMBDA next : MonVerLoop(data, i + 1, next))

\* getattr(data, name, "n/a").replace(b"\x00", b"").decode("utf-8"): the
\* default is a str, whose replace rejects bytes arguments with TypeError
VersionField(r, data, name) ==
    IF name \notin DOMAIN data THEN Raise(r, "TypeError")
    ELSE IF ~Decodable(Without(data[name], "NUL")) THEN Raise(r, "UnicodeDecodeError")
    ELSE r

process_MON_VER(r, data) ==
    Bind(MonVerLoop(data, 1, [fw |-> <<"n/a">>, protocol |-> <<"n/a">>,
                              gnss |-> <<>>, failed |-> FALSE]),
         LAMBDA acc :
    LET s == VersionField(r, data, "swVersion")
        h == VersionField(s, data, "hwVersion")
        l == IF h.exc = NoExc /\ acc.failed THEN Raise(h, "UnicodeDecodeError") ELSE h
        c == IF l.exc = NoExc /\ "dlg_ubxconfig" \in l.w.sinks
             THEN Call(l, "dlg_ubxconfig", "update_pending",
                       [msgid |-> "MON-VER",
                        swversion |-> Replace(Replace(Without(data.swVersion, "NUL"),
                                                      "ROM CORE", "ROM"),
                                              "EXT CORE", "Flash"),
                        hwversion |-> Without(data.hwVersion, "NUL"),
                        fwversion |-> acc.fw, protocol |-> acc.protocol,
                        gnsssupported |-> acc.gnss])
             ELSE l
    IN  Catch(c))

\* getattr(data, name, default)
GetAttr(data, name, default) == IF name \in DOMAIN data THEN data[name] ELSE default

\* MON-HW that reports to the configuration panel without testing for it
process_MON_HW_unguarded(r, data) ==
    LET ant_status == GetAttr(data, "aStatus", 1)
        ant_power == GetAttr(data, "aPower", 2)
    IN  Call(r, "dlg_ubxconfig", "update_pending",
             [msgid |-> "MON-HW", antstatus |-> ant_status, antpower |-> ant_power])

process_MON_HW(r, data) ==
    LET ant_status == GetAttr(data, "aStatus", 1)
        ant_power == GetAttr(data, "aPower", 2)
    IN  IF "dlg_ubxconfig" \in r.w.sinks
        THEN Call(r, "dlg_ubxconfig", "update_pending",
                  [msgid |-> "MON-HW", antstatus |-> ant_status, antpower |-> ant_power])
        ELSE r

----------------------------------------------------------------------------
(* process_data *)

\* UBXReader.parse(data, validate=VALCKSUM): fails unless the checksum bytes
\* are those computed over the frame
ChecksumOk(f) == f.ck = Checksum(f.cls, f.id, f.payload)

Parse(f) == [identity |-> Identity(f.cls, f.id), fields |-> f.fields]

\* str(raw_data) and str(parsed_data)
StrBytes(f) == <<"bytes", RawBytes(f)>>

StrMsg(m) == <<"UBX", m.identity, m.fields>>

\* update_console with the two branches exchanged
update_console_inverted(r, f, parsed_data) ==
    IF r.w.cfg.raw
    THEN Call(r, "frm_console", "update_console", [text |-> StrMsg(parsed_data)])
    ELSE Call(r, "frm_console", "update_console", [text |-> StrBytes(f)])

update_console(r, f, parsed_data) ==
    IF r.w.cfg.raw
    THEN Call(r, "frm_console", "update_console", [text |-> StrBytes(f)])
    ELSE Call(r, "frm_console", "update_console", [text |-> StrMsg(parsed_data)])

Invoke(r, name, data) ==
    LET q == [r EXCEPT !.handlers = Append(@, name)] IN
    CASE name = "ACK-ACK"    -> process_ACK_ACK(q, data)
      [] name = "ACK-NAK"    -> process_ACK_NAK(q, data)
      [] name = "CFG-MSG"    -> process_CFG_MSG(q, data)
      [] name = "CFG-PRT"    -> process_CFG_PRT(q, data)
      [] name = "CFG-RATE"   -> process_CFG_RATE(q, data)
      [] name = "CFG-INF"    -> process_CFG_INF(q, data)
      [] name = "CFG-VALGET" -> process_CFG_VALGET(q, data)
      [] name = "NAV-POSLLH" -> process_NAV_POSLLH(q, data)
      [] name = "NAV-PVT"    -> process_NAV_PVT(q, data)
      [] name = "NAV-VELNED" -> process_NAV_VELNED(q, data)
      [] name = "NAV-SAT"    -> process_NAV_SAT(q, data)
      [] name = "NAV-SVINFO" -> process_NAV_SVINFO(q, data)
      [] name = "NAV-SOL"    -> process_NAV_SOL(q, data)
      [] name = "NAV-DOP"    -> process_NAV_DOP(q, data)
      [] name = "HNR-PVT"    -> process_HNR_PVT(q, data)
      [] name = "MON-VER"    -> process_MON_VER(q, data)
      [] name = "MON-HW"     -> process_MON_HW(q, data)
      [] name = "NAV-STATUS" -> process_NAV_STATUS(q, data)
      [] name = "MON-RF"     -> process_MON_RF(q, data)
      [] name = "MON-SPAN"   -> process_MON_SPAN(q, data)

\* the chain of if statements, from its i-th on; an exception leaves it
RECURSIVE Dispatch(_, _, _)
Dispatch(r, parsed_data, i) ==
    IF i > Len(HandlerOrder) \/ r.exc # NoExc THEN r
    ELSE IF parsed_data.identity = HandlerOrder[i]
    THEN Bind(Invoke(r, HandlerOrder[i], parsed_data.fields),
              LAMBDA q : Dispatch(q, parsed_data, i + 1))
    ELSE Dispatch(r, parsed_data, i + 1)

\* process_data parsing without checksum validation
process_data_novalidate(w, f) ==
    LET parsed_data == Parse(f) IN
    Bind(Dispatch(Start(w), parsed_data, 1),
         LAMBDA d :
           IF d.exc # NoExc THEN d
           ELSE IF Len(RawBytes(f)) > 0
           THEN update_console(d, f, parsed_data)
           ELSE d)

\* process_data that falls back to the raw display once a frame fails to decode
process_data_rawfallback(w, f) ==
    IF ~ChecksumOk(f)
    THEN Raise([Start(w) EXCEPT !.w.cfg.raw = TRUE], "UBXParseError")
    ELSE LET parsed_data == Parse(f) IN
         Bind(Dispatch(Start(w), parsed_data, 1),
              LAMBDA d :
                IF d.exc # NoExc THEN d
                ELSE IF Len(RawBytes(f)) > 0
                THEN update_console(d, f, parsed_data)
                ELSE d)

\* process_data that writes the console only for frames a handler took
process_data_handledonly(w, f) ==
    IF ~ChecksumOk(f) THEN Raise(Start(w), "UBXParseError")
    ELSE LET parsed_data == Parse(f) IN
         Bind(Dispatch(Start(w), parsed_data, 1),
              LAMBDA d :
                IF d.exc # NoExc THEN d
                ELSE IF d.handlers # <<>>
                THEN update_console(d, f, parsed_data)
                ELSE d)

\* process_data(data) in program state w
process_data(w, f) ==
    IF ~ChecksumOk(f) THEN Raise(Start(w), "UBXParseError")
    ELSE LET parsed_data == Parse(f) IN
         Bind(Dispatch(Start(w), parsed_data, 1),
              LAMBDA d :
                IF d.exc # NoExc THEN d
                ELSE IF Len(RawBytes(f)) > 0
                THEN update_console(d, f, parsed_data)
                ELSE d)

\* how a call of process_data ended
Outcome(r) ==
    IF r.exc = NoExc THEN "returned"
    ELSE IF r.exc = "UBXParseError" THEN "decode_error"
    ELSE "handler_error"

----------------------------------------------------------------------------
(* The state machine *)

\* the program state the handlers read and write
World ==
    [rs |-> rs, sv |-> spanview, cfg |-> settings, sinks |-> sinks, pending |-> pending]

Init ==
    /\ rs = [gsv_data |-> <<>>, lon |-> Zero, lat |-> Zero, alt |-> Zero,
             track |-> Zero, speed |-> Zero, pdop |-> Zero, hdop |-> Zero,
             vdop |-> Zero, hacc |-> Zero, vacc |-> Zero, utc |-> EmptyStr,
             sip |-> 0, fix |-> "-"]
    /\ spanview = [spoof |-> 0, jamState |-> 0, jamming |-> 0, center |-> 0,
                   span |-> 0, drawn |-> <<>>]
    /\ settings \in { [raw |-> FALSE, show_zero |-> FALSE, record_track |-> FALSE,
                       glonass_nmea |-> g] : g \in BOOLEAN }
    /\ sinks = AllSinks \ {"dlg_ubxconfig"}
    /\ pending = <<>>
    /\ last = [seq |-> 0, input |-> 0, outcome |-> "none", exc |-> NoExc, caught |-> FALSE,
               handlers |-> <<>>, calls |-> <<>>, nested |-> <<>>]
    /\ prev = [w |-> World, outcome |-> "none"]
    /\ nsteps = 0

\* one call of process_data, on the i-th input; last.seq counts the calls
ProcessData(i) ==
    /\ nsteps < MaxSteps
    /\ \E r \in {process_data(World, Inputs[i])} :
        /\ rs' = r.w.rs
        /\ spanview' = r.w.sv
        /\ settings' = r.w.cfg
        /\ sinks' = r.w.sinks
        /\ pending' = r.w.pending
        /\ last' = [seq |-> last.seq + 1, input |-> i, outcome |-> Outcome(r),
                    exc |-> r.exc, caught |-> r.caught, handlers |-> r.handlers,
                    calls |-> r.calls, nested |-> r.nested]
    /\ prev' = [w |-> World, outcome |-> last.outcome]
    /\ nsteps' = nsteps + 1

\* the user changes the console's display mode
ToggleRaw ==
    /\ nsteps < MaxSteps
    /\ settings' = [settings EXCEPT !.raw = ~@]
    /\ nsteps' = nsteps + 1
    /\ UNCHANGED <<rs, spanview, sinks, last, prev, pending>>

\* the user changes whether satellites with no signal are shown
ToggleShowZero ==
    /\ nsteps < MaxSteps
    /\ settings' = [settings EXCEPT !.show_zero = ~@]
    /\ nsteps' = nsteps + 1
    /\ UNCHANGED <<rs, spanview, sinks, last, prev, pending>>

\* the user starts or stops track recording
ToggleRecordTrack ==
    /\ nsteps < MaxSteps
    /\ settings' = [settings EXCEPT !.record_track = ~@]
    /\ nsteps' = nsteps + 1
    /\ UNCHANGED <<rs, spanview, sinks, last, prev, pending>>

\* the user opens or closes the UBX configuration dialog
ToggleConfigDialog ==
    /\ nsteps < MaxSteps
    /\ sinks' = IF "dlg_ubxconfig" \in sinks THEN sinks \ {"dlg_ubxconfig"}
                ELSE sinks \cup {"dlg_ubxconfig"}
    /\ nsteps' = nsteps + 1
    /\ UNCHANGED <<rs, spanview, settings, last, prev, pending>>

Next ==
    \/ \E i \in 1..Len(Frames) : ProcessData(i)
    \/ ToggleRaw
    \/ ToggleShowZero
    \/ ToggleRecordTrack
    \/ ToggleConfigDialog

Spec == Init /\ [][Next]_vars

----------------------------------------------------------------------------
(* Reading the record of the last call *)

\* the frame the last call was handed (defined once process_data has run)
LastFrame == Inputs[last.input]

LastIdentity == Identity(LastFrame.cls, LastFrame.id)

\* the last call was handed a frame whose checksum validates
Decoded == last.input > 0 /\ ChecksumOk(LastFrame)

\* the calls the last call of process_data made to one sink
CallsTo(sink) == SelectSeq(last.calls, LAMBDA c : c.sink = sink)

\* the ReceiverState fields the last call of process_data changed
Changed == {k \in DOMAIN rs : rs[k] # prev.w.rs[k]}

\* what a call of process_data on frame f in program state w does that can be
\* seen from outside: how it ends, the handlers it runs, the sink calls it makes
Publish(w, f) ==
    Bind(process_data(w, f),
         LAMBDA r : [outcome |-> Outcome(r), exc |-> r.exc,
                     handlers |-> r.handlers, calls |-> r.calls])

\* v is the fraction raw / scale
IsQuotient(v, raw, scale) ==
    /\ v[2] > 0
    /\ scale % v[2] = 0
    /\ raw % (scale \div v[2]) = 0
    /\ v[1] = raw \div (scale \div v[2])

----------------------------------------------------------------------------
(* C1 *)

\* C1: a frame that decodes with a handled identity runs exactly the handler
\* of that identity, a frame that decodes with any other identity runs none,
\* and in both cases the console sink is called exactly once for the frame.
C1_OneHandlerOneConsole ==
    Decoded =>
        /\ (LastIdentity \in Handled => last.handlers = <<LastIdentity>>)
        /\ (LastIdentity \notin Handled => last.handlers = <<>>)
        /\ Len(CallsTo("frm_console")) = 1

----------------------------------------------------------------------------
(* C2 *)

\* C2: a frame whose checksum does not validate fails at the decode step: no
\* handler runs, no sink is called, and every ReceiverState field (and the
\* span view's held data) keeps the value it had before the call.
C2_BadChecksumNoEffect ==
    (last.input > 0 /\ ~ChecksumOk(LastFrame)) =>
        /\ last.outcome = "decode_error"
        /\ last.handlers = <<>>
        /\ last.calls = <<>>
        /\ \A k \in DOMAIN rs : rs[k] = prev.w.rs[k]
        /\ spanview = prev.w.sv

\* a corrupted frame arrived after a position had been stored
C2_Witness ==
    /\ last.input > 0
    /\ ~ChecksumOk(LastFrame)
    /\ last.outcome = "decode_error"
    /\ rs.lat = <<473397, 10000>>
    /\ rs.gsv_data # <<>>

----------------------------------------------------------------------------
(* C3 *)

Failures == {"decode_error", "handler_error"}

\* C3: when a call of process_data fails (decode error, or an error raised
\* inside a handler, caught there or not), every valid frame handed in next
\* is decoded, dispatched and published exactly as it would have been in the
\* state before the failing frame.
C3_FailureLeavesPipelineIntact ==
    [][ (last'.seq # last.seq /\ (last'.outcome \in Failures \/ last'.caught)) =>
            \/ World' = World
            \/ \A i \in 1..Len(ValidFrames) :
                   Publish(World', ValidFrames[i]) = Publish(World, ValidFrames[i]) ]_vars

\* a valid frame was processed and published right after a handler error
\* that had left its own changes in the span view
C3_Witness ==
    /\ prev.outcome = "handler_error"
    /\ prev.w.sv.drawn = <<"cleared">>
    /\ last.outcome = "returned"
    /\ Len(last.calls) >= 2

----------------------------------------------------------------------------
(* C4 *)

\* C4: a frame that decodes with an identity process_data does not handle
\* runs no handler, changes no held data, calls no sink but the console,
\* raises nothing, and is written to the console.
C4_UnhandledIdentity ==
    (Decoded /\ LastIdentity \notin Handled) =>
        /\ last.handlers = <<>>
        /\ Changed = {}
        /\ spanview = prev.w.sv
        /\ last.outcome = "returned"
        /\ ~last.caught
        /\ Len(last.calls) = 1
        /\ last.calls[1].sink = "frm_console"
        /\ last.calls[1].args.text \in
               { StrBytes(LastFrame), StrMsg(Parse(LastFrame)) }

\* a NAV-CLOCK or vendor frame arrived after a position had been stored
C4_Witness ==
    /\ Decoded
    /\ LastIdentity \notin Handled
    /\ rs.lat # Zero
    /\ Len(CallsTo("frm_console")) = 1

----------------------------------------------------------------------------
(* C5 *)

\* C5: every frame that decodes is written to the console, whatever its
\* handler did: returned, caught a conversion error, or raised.
C5_ConsoleWhateverTheHandlerDid ==
    Decoded =>
        \E n \in 1..Len(last.calls) :
            /\ last.calls[n].sink = "frm_console"
            /\ last.calls[n].method = "update_console"

----------------------------------------------------------------------------
(* C6 *)

\* C6: the text written to the console for a frame is the string form of
\* the raw bytes when frm_settings.raw was true as the frame was processed
\* and the string form of the decoded message when it was false; a later
\* change of the flag leaves the text already written as it is.
C6_ConsoleTextFollowsRawFlag ==
    \A n \in 1..Len(last.calls) :
        last.calls[n].sink = "frm_console" =>
            last.calls[n].args.text =
                IF prev.w.cfg.raw THEN StrBytes(LastFrame) ELSE StrMsg(Parse(LastFrame))

\* a frame was written as raw bytes, and the flag was switched off afterwards
C6_Witness ==
    /\ Len(CallsTo("frm_console")) = 1
    /\ CallsTo("frm_console")[1].args.text = StrBytes(LastFrame)
    /\ prev.w.cfg.raw
    /\ ~settings.raw

----------------------------------------------------------------------------
(* C7 *)

\* C7: a valid NAV-DOP changes only pdop, hdop and vdop of ReceiverState,
\* calls the banner once with exactly dop, hdop and vdop, and calls no other
\* sink but the console.
C7_NavDopEffect ==
    (Decoded /\ LastIdentity = "NAV-DOP") =>
        /\ Changed \subseteq {"pdop", "hdop", "vdop"}
        /\ rs.pdop = TrueDiv(LastFrame.fields.pDOP, 100)
        /\ rs.hdop = TrueDiv(LastFrame.fields.hDOP, 100)
        /\ rs.vdop = TrueDiv(LastFrame.fields.vDOP, 100)
        /\ spanview = prev.w.sv
        /\ Len(last.calls) = 2
        /\ last.calls[1].sink = "frm_banner"
        /\ last.calls[1].method = "update_banner"
        /\ DOMAIN last.calls[1].args = {"dop", "hdop", "vdop"}
        /\ last.calls[1].args =
               [dop |-> rs.pdop, hdop |-> rs.hdop, vdop |-> rs.vdop]
        /\ last.calls[2].sink = "frm_console"

\* the scenario of a NAV-PVT, a corrupted frame, then a NAV-DOP: the position
\* of the NAV-PVT is still held
C7_Witness ==
    /\ Decoded
    /\ LastIdentity = "NAV-DOP"
    /\ prev.outcome = "decode_error"
    /\ rs.lat = <<473397, 10000>>
    /\ rs.lon = <<85339, 10000>>
    /\ rs.pdop = <<199, 100>>

----------------------------------------------------------------------------
(* C8 *)

\* C8, as claimed: the sets of ReceiverState fields written by two distinct
\* handled identities do not intersect; so two frames of distinct handled
\* identities processed one after the other never change the same field.
C8_DisjointWriters ==
    [][ ( /\ last'.seq # last.seq
          /\ last.input > 0 /\ ChecksumOk(Inputs[last.input])
          /\ ChecksumOk(Inputs[last'.input])
          /\ LastIdentity \in Handled
          /\ LastIdentity' \in Handled
          /\ LastIdentity' # LastIdentity )
        => Changed \cap {k \in DOMAIN rs : rs'[k] # rs[k]} = {} ]_vars

\* the ReceiverState fields the handler of an identity assigns
Owns(identity) ==
    CASE identity = "NAV-POSLLH" -> {"utc", "lat", "lon", "alt", "hacc", "vacc"}
      [] identity = "NAV-PVT" -> {"utc", "lat", "lon", "alt", "hacc", "vacc",
                                  "pdop", "sip", "speed", "track"}
      [] identity = "HNR-PVT" -> {"utc", "lat", "lon", "alt", "hacc", "vacc",
                                  "speed", "track"}
      [] identity = "NAV-VELNED" -> {"track", "speed"}
      [] identity = "NAV-SOL" -> {"pdop", "sip"}
      [] identity = "NAV-DOP" -> {"pdop", "hdop", "vdop"}
      [] identity \in {"NAV-SAT", "NAV-SVINFO"} -> {"gsv_data"}
      [] OTHER -> {}

\* C8, amended: each identity writes only its own fixed subset of
\* ReceiverState (Owns), and a frame that does not decode writes nothing; the
\* subsets of distinct identities overlap.
C8_WritesOnlyOwnFields ==
    /\ last.input > 0 =>
          Changed \subseteq (IF Decoded THEN Owns(LastIdentity) ELSE {})
    /\ Owns("NAV-POSLLH") \cap Owns("NAV-PVT") # {}
    /\ Owns("NAV-PVT") \cap Owns("NAV-DOP") # {}

\* a NAV-PVT overwrote the position a NAV-POSLLH had stored
C8_Witness ==
    /\ Decoded
    /\ LastIdentity = "NAV-PVT"
    /\ prev.w.rs.lat = <<534507657, 10000000>>
    /\ rs.lat = <<473397, 10000>>
    /\ "lat" \in Changed

----------------------------------------------------------------------------
(* C9 *)

\* the identities whose handlers store a position
PositionIds == {"NAV-POSLLH", "NAV-PVT", "HNR-PVT"}

\* C9: the position handlers store lat = raw / 10^7 and lon = raw / 10^7,
\* alt = hMSL / 1000, hacc = hAcc / 1000 and vacc = vAcc / 1000; NAV-PVT and
\* HNR-PVT store track = headMot / 10^5 and NAV-VELNED track = heading /
\* 10^5; NAV-PVT, NAV-SOL and NAV-DOP store
\* pdop = pDOP / 100 (NAV-DOP also hdop, vdop); raw lat 473397000 is held as
\* 47.3397.
C9_Scaling ==
    Decoded =>
      LET d == LastFrame.fields IN
        /\ LastIdentity \in PositionIds =>
              /\ IsQuotient(rs.lat, d.lat, 10000000)
              /\ IsQuotient(rs.lon, d.lon, 10000000)
              /\ IsQuotient(rs.alt, d.hMSL, 1000)
              /\ IsQuotient(rs.hacc, d.hAcc, 1000)
              /\ IsQuotient(rs.vacc, d.vAcc, 1000)
              /\ (d.lat = 473397000 => rs.lat = <<473397, 10000>>)
        /\ LastIdentity \in {"NAV-PVT", "HNR-PVT"} =>
              IsQuotient(rs.track, d.headMot, 100000)
        /\ LastIdentity = "NAV-VELNED" =>
              IsQuotient(rs.track, d.heading, 100000)
        /\ LastIdentity \in {"NAV-PVT", "NAV-SOL", "NAV-DOP"} =>
              IsQuotient(rs.pdop, d.pDOP, 100)
        /\ LastIdentity = "NAV-DOP" =>
              /\ IsQuotient(rs.hdop, d.hDOP, 100)
              /\ IsQuotient(rs.vdop, d.vDOP, 100)

\* the NAV-PVT with raw lat 473397000 was processed
C9_Witness ==
    /\ Decoded
    /\ LastIdentity = "NAV-PVT"
    /\ LastFrame.fields.lat = 473397000
    /\ rs.lat = <<473397, 10000>>

----------------------------------------------------------------------------
(* C10 *)

\* ten times the fraction v
TenTimes(v) == TrueDiv(10 * v[1], v[2])

\* C10: NAV-PVT and HNR-PVT store speed = gSpeed / 1000 and NAV-VELNED
\* stores speed = gSpeed / 100; no other frame changes the held speed, so it
\* is always the value the last speed-carrying message gave it; the same raw
\* gSpeed gives a NAV-VELNED speed ten times the NAV-PVT speed.
C10_SpeedScalePerIdentity ==
    /\ last.input > 0 =>
         IF Decoded /\ LastIdentity \in {"NAV-PVT", "HNR-PVT"}
         THEN IsQuotient(rs.speed, LastFrame.fields.gSpeed, 1000)
         ELSE IF Decoded /\ LastIdentity = "NAV-VELNED"
         THEN IsQuotient(rs.speed, LastFrame.fields.gSpeed, 100)
         ELSE rs.speed = prev.w.rs.speed
    /\ \A i, j \in 1..Len(ValidFrames) :
         LET p == ValidFrames[i]
             v == ValidFrames[j]
         IN  ( /\ Identity(p.cls, p.id) = "NAV-PVT"
               /\ Identity(v.cls, v.id) = "NAV-VELNED"
               /\ p.fields.gSpeed = v.fields.gSpeed )
             => process_data(World, v).w.rs.speed =
                    TenTimes(process_data(World, p).w.rs.speed)

\* a NAV-VELNED replaced the speed a NAV-PVT with the same raw gSpeed had
\* stored: 1.5 m/s became 15 m/s
C10_Witness ==
    /\ Decoded
    /\ LastIdentity = "NAV-VELNED"
    /\ LastFrame.fields.gSpeed = 1500
    /\ prev.w.rs.speed = <<3, 2>>
    /\ rs.speed = <<15, 1>>

----------------------------------------------------------------------------
(* C11 *)

\* the satellite records of the last frame that the zero-signal filter lets
\* through, in record order
KeptRecords ==
    SelectSeq(LastFrame.fields.sats, LAMBDA s : s.cno # 0 \/ prev.w.cfg.show_zero)

\* the satellite id the claim has stored for a NAV-SAT record
RemappedSlot(s) ==
    IF s.gnssId = 6 /\ s.svId \in 1..24 /\ settings.glonass_nmea
    THEN s.svId + 64
    ELSE s.svId

\* C11: NAV-SAT stores satelliteId + 64 for a GLONASS record with satelliteId
\* 1..24 when GLONASS_NMEA is set, and the satelliteId unchanged for every
\* other record, every other satelliteId and with the flag off; NAV-SVINFO
\* stores every satelliteId unchanged.
C11_RemapOnlySlots ==
    (Decoded /\ last.outcome = "returned") =>
        /\ LastIdentity = "NAV-SAT" =>
              rs.gsv_data = [n \in 1..Len(KeptRecords) |->
                                <<KeptRecords[n].gnssId, RemappedSlot(KeptRecords[n]),
                                  KeptRecords[n].elev, KeptRecords[n].azim,
                                  KeptRecords[n].cno>>]
        /\ LastIdentity = "NAV-SVINFO" =>
              /\ Len(rs.gsv_data) = Len(KeptRecords)
              /\ \A n \in 1..Len(KeptRecords) : rs.gsv_data[n][2] = KeptRecords[n].svid

----------------------------------------------------------------------------
(* C12 *)

\* C12: a NAV-SAT or NAV-SVINFO with numCh = 0 leaves an empty satellite
\* list, and still calls update_sats once, with the empty list; the banner is
\* told siv = 0.
C12_NoSatellitesStillPublished ==
    (Decoded /\ LastIdentity \in {"NAV-SAT", "NAV-SVINFO"}
             /\ LastFrame.fields.numCh = 0) =>
        /\ rs.gsv_data = <<>>
        /\ CallsTo("frm_satview") =
               << [sink |-> "frm_satview", method |-> "update_sats",
                   args |-> [data |-> <<>>]] >>
        /\ CallsTo("frm_banner") =
               << [sink |-> "frm_banner", method |-> "update_banner",
                   args |-> [siv |-> 0]] >>
        /\ CallsTo("frm_graphview") =
               << [sink |-> "frm_graphview", method |-> "update_graph",
                   args |-> [data |-> <<>>, siv |-> 0]] >>

\* a NAV-SVINFO with numCh = 0 emptied a list that held satellites
C12_Witness ==
    /\ Decoded
    /\ LastIdentity = "NAV-SVINFO"
    /\ LastFrame.fields.numCh = 0
    /\ prev.w.rs.gsv_data # <<>>
    /\ rs.gsv_data = <<>>
    /\ Len(CallsTo("frm_satview")) = 1

----------------------------------------------------------------------------
(* C13 *)

\* elevation, azimuth and signal of the stored satellite tuples
Triples(list) == [n \in 1..Len(list) |-> <<list[n][3], list[n][4], list[n][5]>>]

\* elevation, azimuth and signal of the records the filter lets through
KeptTriples ==
    [n \in 1..Len(KeptRecords) |->
        <<KeptRecords[n].elev, KeptRecords[n].azim, KeptRecords[n].cno>>]

\* C13: for NAV-SAT and NAV-SVINFO alike, with show_zero false the published
\* list holds exactly the records whose signal is not 0, with show_zero true
\* it holds all numCh records, and the records kept are in record order.
C13_ZeroSignalFilter ==
    (Decoded /\ LastIdentity \in {"NAV-SAT", "NAV-SVINFO"}) =>
        LET sats == LastFrame.fields.sats IN
        /\ Len(CallsTo("frm_satview")) = 1
        /\ CallsTo("frm_satview")[1].args.data = rs.gsv_data
        /\ Triples(rs.gsv_data) = KeptTriples
        /\ ~prev.w.cfg.show_zero =>
              /\ \A n \in 1..Len(rs.gsv_data) : rs.gsv_data[n][5] # 0
              /\ Len(rs.gsv_data) = Cardinality({i \in 1..Len(sats) : sats[i].cno # 0})
        /\ prev.w.cfg.show_zero =>
              /\ Len(rs.gsv_data) = LastFrame.fields.numCh
              /\ Triples(rs.gsv_data) =
                     [n \in 1..Len(sats) |-> <<sats[n].elev, sats[n].azim, sats[n].cno>>]

\* a NAV-SAT published its record with no signal, show_zero being on, after
\* a NAV-SVINFO had dropped its own, show_zero being off
C13_Witness ==
    /\ Decoded
    /\ LastIdentity = "NAV-SAT"
    /\ prev.w.cfg.show_zero
    /\ Len(rs.gsv_data) = 3
    /\ rs.gsv_data[2][5] = 0
    /\ Len(prev.w.rs.gsv_data) = 1
    /\ prev.w.rs.gsv_data[1][2] = 12

----------------------------------------------------------------------------
(* C14 *)

\* the spoofing indicator the claim has for a flags byte
ClampedSpoof(byte) == IF byte \div 8 > 3 THEN 3 ELSE byte \div 8

\* C14: the spoofing indicator handed to update_spoof for a NAV-STATUS is
\* floor(flags byte / 8) clamped into 0..3: 2 for byte 16, 3 for byte 31, and
\* never a value outside 0..3.
C14_SpoofIndicatorInRange ==
    (Decoded /\ LastIdentity = "NAV-STATUS") =>
        /\ Len(CallsTo("frm_spanview")) = 1
        /\ CallsTo("frm_spanview")[1].method = "update_spoof"
        /\ CallsTo("frm_spanview")[1].args.spoof = ClampedSpoof(LastFrame.fields.flags2[1])
        /\ CallsTo("frm_spanview")[1].args.spoof \in 0..3
        /\ spanview.spoof \in 0..3

----------------------------------------------------------------------------
(* C15 *)

\* the sinks the application always creates; the configuration dialog is
\* there only while it is open
PermanentSinks == AllSinks \ {"dlg_ubxconfig"}

\* the state after construction of an application one of whose sinks is None
InitAbsentSink ==
    /\ rs = [gsv_data |-> <<>>, lon |-> Zero, lat |-> Zero, alt |-> Zero,
             track |-> Zero, speed |-> Zero, pdop |-> Zero, hdop |-> Zero,
             vdop |-> Zero, hacc |-> Zero, vacc |-> Zero, utc |-> EmptyStr,
             sip |-> 0, fix |-> "-"]
    /\ spanview = [spoof |-> 0, jamState |-> 0, jamming |-> 0, center |-> 0,
                   span |-> 0, drawn |-> <<>>]
    /\ settings = [raw |-> FALSE, show_zero |-> FALSE, record_track |-> FALSE,
                   glonass_nmea |-> TRUE]
    /\ sinks \in { PermanentSinks \ {s} : s \in AllSinks }
    /\ pending = <<>>
    /\ last = [seq |-> 0, input |-> 0, outcome |-> "none", exc |-> NoExc, caught |-> FALSE,
               handlers |-> <<>>, calls |-> <<>>, nested |-> <<>>]
    /\ prev = [w |-> World, outcome |-> "none"]
    /\ nsteps = 0

SpecAbsentSink == InitAbsentSink /\ [][Next]_vars

\* the last call of process_data, had every permanent sink been there
WithAllSinks ==
    process_data([prev.w EXCEPT !.sinks = @ \cup PermanentSinks], LastFrame)

\* C15: when a sink is absent, the updates a handler would send to it are
\* no-ops: the call of process_data raises nothing it would not raise with the
\* sink present, the held data end as they would with the sink present, and
\* the calls made are those it would make, less the calls to the absent sink
\* (so the other sinks and the console are still called).
C15_AbsentSinkIsNoOp ==
    Decoded =>
        \E full \in {WithAllSinks} :
            /\ last.exc = full.exc
            /\ rs = full.w.rs
            /\ spanview = full.w.sv
            /\ last.calls = SelectSeq(full.calls, LAMBDA c : c.sink \in prev.w.sinks)

----------------------------------------------------------------------------
(* C16 *)

\* process_data is also handed decoded messages that lack a field
NextIncomplete ==
    \/ \E i \in 1..Len(Inputs) : ProcessData(i)
    \/ ToggleRaw
    \/ ToggleShowZero
    \/ ToggleRecordTrack
    \/ ToggleConfigDialog

SpecIncomplete == Init /\ [][NextIncomplete]_vars

\* the last frame lacks a field its handler reads
Incomplete == last.input > Len(Frames)

\* C16: a handler given a message that lacks an optional field raises nothing
\* and goes on to its sink calls with a default: MON-VER without swVersion
\* reports the default "n/a" to the configuration panel, MON-HW without
\* aStatus/aPower reports 1 and 2, and NAV-SAT with fewer records than numCh
\* publishes the records there are.
C16_MissingFieldDefaults ==
    Incomplete =>
        /\ last.outcome = "returned"
        /\ Len(CallsTo("frm_console")) = 1
        /\ (LastIdentity = "MON-VER" /\ "dlg_ubxconfig" \in prev.w.sinks) =>
              /\ Len(CallsTo("dlg_ubxconfig")) = 1
              /\ CallsTo("dlg_ubxconfig")[1].args.swversion = <<"n/a">>
        /\ (LastIdentity = "MON-HW" /\ "dlg_ubxconfig" \in prev.w.sinks) =>
              /\ Len(CallsTo("dlg_ubxconfig")) = 1
              /\ CallsTo("dlg_ubxconfig")[1].args.antstatus = 1
              /\ CallsTo("dlg_ubxconfig")[1].args.antpower = 2
        /\ LastIdentity = "NAV-SAT" => Len(CallsTo("frm_satview")) = 1

----------------------------------------------------------------------------
(* C17 *)

\* the sinks a handler publishes held data to
DataSinks == {"frm_banner", "frm_mapview", "frm_satview", "frm_graphview", "file_handler"}

\* C17, as claimed: when a conversion fails inside a handler and is caught
\* there, no ReceiverState field has changed and none of the banner, map,
\* satellite, graph and track sinks was called for the message.
C17_FailedConversionSkipsUpdate ==
    (Decoded /\ last.caught) =>
        /\ Changed = {}
        /\ \A n \in 1..Len(last.calls) : last.calls[n].sink \notin DataSinks

\* the last call of process_data, had track recording been off
WithoutTrack ==
    process_data([prev.w EXCEPT !.cfg.record_track = FALSE], LastFrame)

\* C17, amended: a conversion failure inside a handler is caught there and
\* the frame is still written to the console; what the handler stored and
\* published before the failing step stays.  NAV-PVT and HNR-PVT fail at the
\* time of the track point: they store every field and update banner and map
\* as they do with track recording off, and only the track point is skipped.
\* MON-VER fails at decoding a text: nothing is stored or published.  No
\* other handler's conversion fails.
C17_FailedConversionKeepsEarlierSteps ==
    (Decoded /\ last.caught) =>
        /\ last.outcome = "returned"
        /\ Len(CallsTo("frm_console")) = 1
        /\ CallsTo("file_handler") = <<>>
        /\ LastIdentity \in {"NAV-PVT", "HNR-PVT", "MON-VER"}
        /\ LastIdentity \in {"NAV-PVT", "HNR-PVT"} =>
              \E off \in {WithoutTrack} :
                  /\ ~off.caught
                  /\ rs = off.w.rs
                  /\ last.calls = off.calls
                  /\ Len(CallsTo("frm_banner")) = 1
                  /\ Len(CallsTo("frm_mapview")) = 1
        /\ LastIdentity = "MON-VER" =>
              /\ Changed = {}
              /\ Len(last.calls) = 1

\* a NAV-PVT whose date is not a date failed at the track point, after it
\* had stored its fields and updated the banner
C17_Witness ==
    /\ Decoded
    /\ last.caught
    /\ LastIdentity = "NAV-PVT"
    /\ prev.w.cfg.record_track
    /\ "pdop" \in Changed
    /\ Len(CallsTo("frm_banner")) = 1
    /\ CallsTo("file_handler") = <<>>

----------------------------------------------------------------------------
(* C18 *)

\* the receiver's fix type of a NAV-PVT (fixType) or HNR-PVT (gpsFix)
FixCode(data) == IF "fixType" \in DOMAIN data THEN data.fixType ELSE data.gpsFix

\* the message carries a position: dead reckoning, 2D, 3D or GPS + DR
HasPosition(data) == FixCode(data) \in 1..4

\* C18: add_trackpoint is called only with track recording on, only by
\* NAV-PVT and HNR-PVT, and only for a message that carries a valid position.
C18_TrackPointOnlyWhenValid ==
    CallsTo("file_handler") # <<>> =>
        /\ prev.w.cfg.record_track
        /\ LastIdentity \in {"NAV-PVT", "HNR-PVT"}
        /\ HasPosition(LastFrame.fields)

----------------------------------------------------------------------------
(* C19 *)

\* the reader thread finds bytes waiting and queues a read event for the
\* main loop; the frame the handler of that event will read is the i-th
ReadEvent(i) ==
    /\ nsteps < MaxSteps
    /\ Len(pending) < MaxPending
    /\ pending' = Append(pending, i)
    /\ nsteps' = nsteps + 1
    /\ UNCHANGED <<rs, spanview, settings, sinks, last, prev>>

\* the main loop runs the handler of the first read event of its queue: one
\* call of process_data, the later events still waiting
DispatchEvent ==
    /\ nsteps < MaxSteps
    /\ pending # <<>>
    /\ \E r \in {process_data([World EXCEPT !.pending = Tail(@)], Inputs[Head(pending)])} :
        /\ rs' = r.w.rs
        /\ spanview' = r.w.sv
        /\ settings' = r.w.cfg
        /\ sinks' = r.w.sinks
        /\ pending' = r.w.pending
        /\ last' = [seq |-> last.seq + 1, input |-> Head(pending), outcome |-> Outcome(r),
                    exc |-> r.exc, caught |-> r.caught, handlers |-> r.handlers,
                    calls |-> r.calls, nested |-> r.nested]
    /\ prev' = [w |-> [World EXCEPT !.pending = Tail(@)], outcome |-> last.outcome]
    /\ nsteps' = nsteps + 1

NextEvents ==
    \/ \E i \in 1..Len(Frames) : ReadEvent(i)
    \/ DispatchEvent

SpecEvents == Init /\ [][NextEvents]_vars

\* C19: decodes never overlap: no call of process_data begins while another
\* call is in progress and has sink calls still to make, so every state
\* change and sink call made for a frame comes before the decoding of the
\* next frame, also while update_span is updating its canvas.
C19_NoOverlappingDecodes ==
    \A n \in 1..Len(last.nested) : Len(last.calls) <= last.nested[n].at

----------------------------------------------------------------------------
(* C20 *)

\* C20: a call of process_data ends: it returns, having run at most one
\* handler and written the console once as its last call, or it fails, at
\* the decode step or in its one handler, without a console write.  The
\* loops of the handlers are bounded: a satellite handler stores at most
\* numCh records, MON-VER reads the first 9 extensions and no more, and
\* MON-SPAN hands over 256 spectrum bins.
C20_OneFrameTerminates ==
    last.input > 0 =>
        /\ last.outcome \in {"returned", "decode_error", "handler_error"}
        /\ Len(last.handlers) <= 1
        /\ last.outcome = "returned" =>
              /\ Len(CallsTo("frm_console")) = 1
              /\ last.calls[Len(last.calls)].sink = "frm_console"
        /\ last.outcome = "decode_error" => (last.handlers = <<>> /\ last.calls = <<>>)
        /\ last.outcome = "handler_error" =>
              (Len(last.handlers) = 1 /\ CallsTo("frm_console") = <<>>)
        /\ (Decoded /\ LastIdentity \in {"NAV-SAT", "NAV-SVINFO"}) =>
              Len(rs.gsv_data) <= LastFrame.fields.numCh
        /\ (Decoded /\ LastIdentity = "MON-VER") =>
              \A n \in 1..Len(CallsTo("dlg_ubxconfig")) :
                \A g \in {GnssNames[k] : k \in 1..Len(GnssNames)} :
                    Has(CallsTo("dlg_ubxconfig")[n].args.gnsssupported, g) =>
                        \E i \in 1..NExtensions :
                            /\ i <= Len(LastFrame.fields.extensions)
                            /\ Has(LastFrame.fields.extensions[i], g)
        /\ (Decoded /\ LastIdentity = "MON-SPAN") =>
              \A n \in 1..Len(CallsTo("frm_spanview")) :
                  Len(CallsTo("frm_spanview")[n].args.spectra) = NBins

\* a MON-VER with ten extensions was reported to the configuration panel
C20_Witness ==
    /\ Decoded
    /\ LastIdentity = "MON-VER"
    /\ Len(LastFrame.fields.extensions) > NExtensions
    /\ last.outcome = "returned"
    /\ Len(CallsTo("dlg_ubxconfig")) = 1
    /\ Len(last.handlers) = 1

----------------------------------------------------------------------------
(* C21 *)

\* C21: a MON-SPAN calls update_span once, with exactly 256 bins, the i-th
\* (from 0) being the field spectrum_01_(i+1) of the message, in ascending
\* order, none left out and none repeated, and with the centre frequency and
\* the span of the first RF block.
C21_SpectrumBinsInOrder ==
    (Decoded /\ LastIdentity = "MON-SPAN") =>
        /\ Len(CallsTo("frm_spanview")) = 1
        /\ CallsTo("frm_spanview")[1].method = "update_span"
        /\ Len(CallsTo("frm_spanview")[1].args.spectra) = 256
        /\ \A i \in 0..255 :
               CallsTo("frm_spanview")[1].args.spectra[i + 1] =
                   LastFrame.fields.spectrum_01[i + 1]
        /\ CallsTo("frm_spanview")[1].args.center = LastFrame.fields.center_01
        /\ CallsTo("frm_spanview")[1].args.span = LastFrame.fields.span_01

\* a MON-SPAN handed over its spectrum, whose bins differ from one another
C21_Witness ==
    /\ Decoded
    /\ LastIdentity = "MON-SPAN"
    /\ last.outcome = "returned"
    /\ Len(CallsTo("frm_spanview")) = 1
    /\ CallsTo("frm_spanview")[1].args.spectra[1] = 7
    /\ CallsTo("frm_spanview")[1].args.spectra[256] = 0
    /\ spanview.center = 1575420000

----------------------------------------------------------------------------
(* C22 *)

\* C22: the jamming state MON-RF hands to update_jamming is one of the four
\* values 0..3 (deactivated, none, interference, jammed) whatever the flags
\* byte of the message, and the span view labels the stored states 1, 2 and
\* 3 "no jamming", "interference" and "jammed" and every other stored state
\* "deactivated".
C22_JammingStateInEnumeration ==
    /\ (Decoded /\ LastIdentity = "MON-RF") =>
          /\ Len(CallsTo("frm_spanview")) = 1
          /\ CallsTo("frm_spanview")[1].method = "update_jamming"
          /\ CallsTo("frm_spanview")[1].args.jamState \in 0..3
          /\ spanview.jamState \in 0..3
    /\ (Decoded /\ LastIdentity = "MON-SPAN" /\ last.outcome = "returned") =>
          spanview.drawn[2] =
              CASE spanview.jamState = 1 -> "no jamming"
                [] spanview.jamState = 2 -> "interference"
                [] spanview.jamState = 3 -> "jammed"
                [] OTHER -> "deactivated"

----------------------------------------------------------------------------
(* C23 *)

\* C23: whatever NAV-STATUS, MON-RF and MON-SPAN messages came before, the
\* stored spoof value has a label in _draw_jamming, so the redraw of a
\* MON-SPAN completes: the call returns, the drawing shows one of the four
\* spoofing labels, and the frame is written to the console.
C23_RedrawHasSpoofLabel ==
    /\ SpoofText(spanview.spoof) # "unbound"
    /\ (Decoded /\ LastIdentity = "MON-SPAN") =>
          /\ last.outcome = "returned"
          /\ Len(spanview.drawn) = 6
          /\ spanview.drawn[1] \in
                 {"deactivated", "no spoofing", "spoofing", "multiple spoof"}
          /\ Len(CallsTo("frm_console")) = 1

----------------------------------------------------------------------------
(* C24 *)

\* the identities whose handlers report to the configuration panel
PanelIds ==
    {"ACK-ACK", "ACK-NAK", "CFG-MSG", "CFG-PRT", "CFG-RATE", "CFG-INF",
     "CFG-VALGET", "MON-VER", "MON-HW"}

\* C24: update_pending of the configuration panel is called only for a
\* frame of one of the nine identities of PanelIds, with that identity as its
\* first argument, and only when the panel is there; when the panel is not
\* there such a frame makes no sink call but the console write, changes no
\* held data and raises no error.
C24_PanelCalledOnlyWhenPresent ==
    /\ \A n \in 1..Len(last.calls) :
          last.calls[n].sink = "dlg_ubxconfig" =>
              /\ Decoded
              /\ LastIdentity \in PanelIds
              /\ last.calls[n].method = "update_pending"
              /\ last.calls[n].args.msgid = LastIdentity
              /\ "dlg_ubxconfig" \in prev.w.sinks
    /\ (Decoded /\ LastIdentity \in PanelIds /\ "dlg_ubxconfig" \notin prev.w.sinks) =>
          /\ last.outcome = "returned"
          /\ Len(last.calls) = 1
          /\ last.calls[1].sink = "frm_console"
          /\ Changed = {}
          /\ spanview = prev.w.sv

\* a MON-HW was reported to the panel, which the user had opened after a
\* position had been stored
C24_Witness ==
    /\ Decoded
    /\ LastIdentity = "MON-HW"
    /\ "dlg_ubxconfig" \in prev.w.sinks
    /\ Len(CallsTo("dlg_ubxconfig")) = 1
    /\ CallsTo("dlg_ubxconfig")[1].args.msgid = "MON-HW"
    /\ rs.lat # Zero
    /\ Changed = {}

----------------------------------------------------------------------------
(* C25 *)

\* the last frame is an ACK-ACK or ACK-NAK for a class/id pair that
\* UBX_MSGIDS does not hold
AcksUnlisted ==
    /\ Decoded
    /\ LastIdentity \in {"ACK-ACK", "ACK-NAK"}
    /\ <<LastFrame.fields.clsID, LastFrame.fields.msgID>> \notin DOMAIN UBX_MSGIDS

\* the last call of process_data, had the configuration panel not been there
WithoutPanel ==
    process_data([prev.w EXCEPT !.sinks = @ \ {"dlg_ubxconfig"}], LastFrame)

\* C25: an ACK-ACK or ACK-NAK for a class/id pair absent from UBX_MSGIDS,
\* received while the configuration panel is there, raises nothing: the call
\* returns and the frame is written to the console, as it is when the panel
\* is not there.
C25_UnlistedAckHandled ==
    (AcksUnlisted /\ "dlg_ubxconfig" \in prev.w.sinks) =>
        /\ last.outcome = "returned"
        /\ Len(CallsTo("frm_console")) = 1
        /\ last.exc = WithoutPanel.exc

----------------------------------------------------------------------------
(* C26 *)

\* C26: a NAV-SAT or NAV-SVINFO replaces the held satellite list: afterwards
\* gsv_data holds records of that message only (at most numCh of them), the
\* satellite view and the graph view are handed that same list, and the siv
\* told to the banner and the count told to the graph view are the length of
\* the list after the zero-signal filter, not numCh.
C26_SatelliteListReplaced ==
    (Decoded /\ LastIdentity \in {"NAV-SAT", "NAV-SVINFO"}) =>
        /\ Len(rs.gsv_data) <= LastFrame.fields.numCh
        /\ Len(rs.gsv_data) = Len(KeptRecords)
        /\ \A n \in 1..Len(rs.gsv_data) :
               /\ rs.gsv_data[n][3] = KeptRecords[n].elev
               /\ rs.gsv_data[n][4] = KeptRecords[n].azim
               /\ rs.gsv_data[n][5] = KeptRecords[n].cno
        /\ Len(CallsTo("frm_satview")) = 1
        /\ CallsTo("frm_satview")[1].args = [data |-> rs.gsv_data]
        /\ Len(CallsTo("frm_graphview")) = 1
        /\ CallsTo("frm_graphview")[1].args =
               [data |-> rs.gsv_data, siv |-> Len(rs.gsv_data)]
        /\ Len(CallsTo("frm_banner")) = 1
        /\ CallsTo("frm_banner")[1].args = [siv |-> Len(rs.gsv_data)]

\* a NAV-SAT of three records, one with no signal, replaced a list of five:
\* two records are held and siv is 2
C26_Witness ==
    /\ Decoded
    /\ LastIdentity = "NAV-SAT"
    /\ LastFrame.fields.numCh = 3
    /\ Len(prev.w.rs.gsv_data) > 3
    /\ Len(rs.gsv_data) = 2
    /\ CallsTo("frm_banner")[1].args.siv = 2
    /\ CallsTo("frm_graphview")[1].args.siv = 2

----------------------------------------------------------------------------
(* C27 *)

\* the keyword update_banner is given each ReceiverState field under
BannerKey ==
    [utc |-> "time", lat |-> "lat", lon |-> "lon", alt |-> "alt", hacc |-> "hacc",
     vacc |-> "vacc", speed |-> "speed", track |-> "track", pdop |-> "dop",
     hdop |-> "hdop", vdop |-> "vdop", sip |-> "sip"]

\* the calls of the last call of process_data that sent a value under key
\* to a sink
Sent(sink, key) ==
    SelectSeq(last.calls, LAMBDA c : c.sink = sink /\ key \in DOMAIN c.args)

\* the held value is the one the last call of process_data sent last under
\* key to the sink, or, if it sent none, the value held before the call
Agrees(field, sink, key) ==
    \E cs \in {Sent(sink, key)} :
        IF cs # <<>> THEN rs[field] = cs[Len(cs)].args[key]
        ELSE rs[field] = prev.w.rs[field]

----------------------------------------------------------------------------
(* C28 *)

\* the sinks of the calls the last call of process_data made, in order
SinkOrder == [n \in 1..Len(last.calls) |-> last.calls[n].sink]

\* C28: with track recording on, a NAV-PVT or HNR-PVT whose date and time
\* make a timestamp adds exactly one track point, after the banner and the
\* map update of the message, with the lat, lon and alt just stored and the
\* fix label "3d" for a 3D fix, "2d" for a 2D fix and "none" for every other
\* fix; NAV-PVT passes the satellite count and pdop as well, HNR-PVT neither.
\* A message whose date and time make no timestamp adds no track point and
\* raises no error, its banner and map updates having been made.
C28_TrackPointAfterBannerAndMap ==
    (Decoded /\ LastIdentity \in {"NAV-PVT", "HNR-PVT"} /\ prev.w.cfg.record_track) =>
        LET d == LastFrame.fields IN
        /\ last.outcome = "returned"
        /\ ValidDatetime(d) =>
              /\ ~last.caught
              /\ SinkOrder = <<"frm_banner", "frm_mapview", "file_handler", "frm_console">>
              /\ \E tp \in {last.calls[3]} :
                    /\ tp.method = "add_trackpoint"
                    /\ tp.args.lat = rs.lat
                    /\ tp.args.lon = rs.lon
                    /\ tp.args.ele = rs.alt
                    /\ IsQuotient(tp.args.lat, d.lat, 10000000)
                    /\ IsQuotient(tp.args.ele, d.hMSL, 1000)
                    /\ tp.args.fix = (IF FixCode(d) = 3 THEN "3d"
                                      ELSE IF FixCode(d) = 2 THEN "2d" ELSE "none")
                    /\ LastIdentity = "NAV-PVT" =>
                          /\ DOMAIN tp.args =
                                 {"lat", "lon", "ele", "time", "fix", "sat", "pdop"}
                          /\ tp.args.sat = d.numSV
                          /\ tp.args.pdop = rs.pdop
                    /\ LastIdentity = "HNR-PVT" =>
                          DOMAIN tp.args = {"lat", "lon", "ele", "time", "fix"}
        /\ ~ValidDatetime(d) =>
              /\ last.caught
              /\ SinkOrder = <<"frm_banner", "frm_mapview", "frm_console">>
              /\ last.calls[1].args.lat = rs.lat
              /\ IsQuotient(rs.lat, d.lat, 10000000)

\* an HNR-PVT with a 2D fix added a track point labelled "2d", with neither
\* satellite count nor pdop
C28_Witness ==
    /\ Decoded
    /\ LastIdentity = "HNR-PVT"
    /\ prev.w.cfg.record_track
    /\ FixCode(LastFrame.fields) = 2
    /\ Len(CallsTo("file_handler")) = 1
    /\ CallsTo("file_handler")[1].args.fix = "2d"
    /\ CallsTo("file_handler")[1].args.lat = <<473399, 10000>>
    /\ "sat" \notin DOMAIN CallsTo("file_handler")[1].args

----------------------------------------------------------------------------
(* C29 *)

\* C29: in the span view, update_spoof changes the stored spoof value only,
\* update_jamming the stored jamming state and level only, and neither
\* redraws; update_span changes the stored centre and span only and then
\* redraws with the spoof value, jamming state and jamming level stored last,
\* so an indicator of a NAV-STATUS or MON-RF shows at the next MON-SPAN, the
\* latest value of each.
C29_IndicatorsShownAtNextSpan ==
    /\ (Decoded /\ LastIdentity = "NAV-STATUS") =>
          /\ spanview = [prev.w.sv EXCEPT !.spoof = LastFrame.fields.flags2[1] \div 8]
          /\ spanview.drawn = prev.w.sv.drawn
    /\ (Decoded /\ LastIdentity = "MON-RF") =>
          /\ spanview = [prev.w.sv EXCEPT !.jamState = LastFrame.fields.flags_01[1],
                                          !.jamming = LastFrame.fields.jamInd_01]
          /\ spanview.drawn = prev.w.sv.drawn
    /\ (Decoded /\ LastIdentity = "MON-SPAN") =>
          /\ spanview.spoof = prev.w.sv.spoof
          /\ spanview.jamState = prev.w.sv.jamState
          /\ spanview.jamming = prev.w.sv.jamming
          /\ spanview.center = LastFrame.fields.center_01
          /\ spanview.span = LastFrame.fields.span_01
          /\ last.outcome = "returned" =>
                /\ Len(spanview.drawn) = 6
                /\ spanview.drawn[1] =
                       (CASE prev.w.sv.spoof = 0 -> "deactivated"
                          [] prev.w.sv.spoof = 1 -> "no spoofing"
                          [] prev.w.sv.spoof = 2 -> "spoofing"
                          [] prev.w.sv.spoof = 3 -> "multiple spoof")
                /\ spanview.drawn[2] =
                       (CASE prev.w.sv.jamState = 1 -> "no jamming"
                          [] prev.w.sv.jamState = 2 -> "interference"
                          [] prev.w.sv.jamState = 3 -> "jammed"
                          [] OTHER -> "deactivated")
                /\ spanview.drawn[3] = prev.w.sv.jamming
                /\ spanview.drawn[4] = LastFrame.fields.center_01
                /\ spanview.drawn[5] = LastFrame.fields.span_01
    /\ (last.input > 0 /\ ~(Decoded /\ LastIdentity \in {"NAV-STATUS", "MON-RF", "MON-SPAN"}))
          => spanview = prev.w.sv

\* a MON-SPAN drew, as the first drawing made, the spoofing indicator that a
\* NAV-STATUS had stored before it without drawing
C29_Witness ==
    /\ Decoded
    /\ LastIdentity = "MON-SPAN"
    /\ last.outcome = "returned"
    /\ prev.w.sv.spoof = 3
    /\ spanview.drawn[1] = "multiple spoof"
    /\ prev.w.sv.drawn = <<>>
    /\ prev.outcome = "returned"

----------------------------------------------------------------------------
(* C30 *)

\* C30: the sink calls a handler makes for a frame all come before the
\* console write of that frame, which is the last sink call made for it; a
\* position message (NAV-POSLLH, NAV-PVT, HNR-PVT) stores its fields, then
\* updates the banner, then the map, then adds the track point if there is
\* one.
C30_ConsoleWriteComesLast ==
    /\ \A n \in 1..Len(last.calls) :
          last.calls[n].sink = "frm_console" => n = Len(last.calls)
    /\ (Decoded /\ last.outcome = "returned") =>
          /\ last.calls # <<>>
          /\ last.calls[Len(last.calls)].method = "update_console"
    /\ (Decoded /\ LastIdentity \in PositionIds) =>
          /\ SinkOrder \in
                 { <<"frm_banner", "frm_mapview", "frm_console">>,
                   <<"frm_banner", "frm_mapview", "file_handler", "frm_console">> }
          /\ \A n \in 1..Len(last.calls) :
                last.calls[n].sink \in {"frm_banner", "frm_mapview", "file_handler"} =>
                    /\ last.calls[n].args.lat = rs.lat
                    /\ last.calls[n].args.lon = rs.lon
          /\ IsQuotient(last.calls[1].args.lat, LastFrame.fields.lat, 10000000)
          /\ IsQuotient(last.calls[1].args.lon, LastFrame.fields.lon, 10000000)

\* an HNR-PVT that replaced a stored position made its four calls in order
C30_Witness ==
    /\ Decoded
    /\ LastIdentity = "HNR-PVT"
    /\ SinkOrder = <<"frm_banner", "frm_mapview", "file_handler", "frm_console">>
    /\ prev.w.rs.lat # Zero
    /\ prev.w.rs.lat # rs.lat
    /\ last.calls[1].args.lat = rs.lat

====
